---- MODULE Spec2Model ----
(***************************************************************************)
(* Model of the KP / Vimshottari computation core of kp-nasa-backend.      *)
(*                                                                         *)
(* Numbers.  A datetime is an integer count of microsecond ticks (the      *)
(* resolution of datetime/timedelta).  A float holding a number of days    *)
(* is an exact rational [n, d] of ticks; _add_days rounds it to a whole    *)
(* tick the way timedelta(seconds=...) does (nearest, ties to even).       *)
(* A float holding a number of years is an integer count of 1/YearUnits    *)
(* years.  The year is scaled down to YearTicks ticks so that sums over    *)
(* 120 years stay in TLC's integers.                                       *)
(***************************************************************************)
EXTENDS Integers, Sequences, FiniteSets, TLC

\* pc: "call" before the function runs, "done" after; fn, args: the call;
\* ret: what it returned or raised; md_log: the md_years of every node that
\* build_vimshottari_timeline_120y appended (its _append_md calls);
\* _SESSION, _CACHE: the two module-level dicts of main.py; requests: how
\* many requests the service has taken so far; _PANCH_CACHE: the module-level
\* dict of panchangam_calc.py; loaded: which of the two modules holding an
\* _EPH global has its dataset, and how often de440s.bsp was loaded; clock:
\* time.time() as panchangam_calc.py reads it
VARIABLES pc, fn, args, ret, md_log, _SESSION, _CACHE, requests, _PANCH_CACHE,
          loaded, clock

vars == <<pc, fn, args, ret, md_log, _SESSION, _CACHE, requests, _PANCH_CACHE, loaded, clock>>

(***************************************************************************)
(* Bounds of the model.                                                    *)
(***************************************************************************)
\* ticks in one year (365.2425 days of 86400 s of 10^6 ticks, scaled down)
YearTicks == 3
\* grid of the year-valued inputs: one unit is 1/YearUnits year
YearUnits == 2
\* longest window handed to build_level_list, in ticks
MaxWindow == 40
\* largest maha_balance_years handed to the flat builders, in year units
MaxBalance == 15
\* largest maha_balance_years handed to build_vimshottari_tree, in year units
MaxTreeBalance == 4
\* longitudes handed to the lattice run this many grid steps past the circle
LonWrap == 30

(***************************************************************************)
(* vimshottari_tree.py: tables and helpers                                 *)
(***************************************************************************)
ORDER == <<"Ketu", "Venus", "Sun", "Moon", "Mars", "Rahu", "Jupiter", "Saturn", "Mercury">>

DASHA_YEARS ==
  [Ketu |-> 7, Venus |-> 20, Sun |-> 6, Moon |-> 10, Mars |-> 7,
   Rahu |-> 18, Jupiter |-> 16, Saturn |-> 19, Mercury |-> 17]

Lords == {ORDER[i] : i \in 1..Len(ORDER)}

\* lords no table knows: what "lord not in ORDER" rejects
InvalidLords == {"Pluto", ""}

\* ORDER.index(lord), 0-based as in the code
OrderIndex(lord) == (CHOOSE i \in 1..Len(ORDER) : ORDER[i] = lord) - 1

\* a bug that steps two places along ORDER
_next_lord_skip(lord) == ORDER[((OrderIndex(lord) + 2) % Len(ORDER)) + 1]

\* a bug that walks ORDER backwards
_next_lord_back(lord) == ORDER[((OrderIndex(lord) + Len(ORDER) - 1) % Len(ORDER)) + 1]

_next_lord(lord) == ORDER[((OrderIndex(lord) + 1) % Len(ORDER)) + 1]

\* timedelta(seconds=x): x rounded to the nearest tick, ties to the even tick
RoundHalfEven(n, d) ==
  LET q == n \div d
      r == n % d
  IN  IF r < d - r THEN q
      ELSE IF r > d - r THEN q + 1
      ELSE IF q % 2 = 0 THEN q ELSE q + 1

_add_days(dt, days) == dt + RoundHalfEven(days.n, days.d)

\* years (in year units) to days, as an exact number of ticks
_days_of_years(years) == [n |-> years * YearTicks, d |-> YearUnits]

\* parent_days * (lord_years / 120.0)
SubDays(parent_days, lord_years) ==
  [n |-> parent_days.n * lord_years, d |-> parent_days.d * 120]

\* datetime.isoformat(): whole seconds and the microsecond field
_iso(dt) == [sec |-> dt \div 1000000, us |-> dt % 1000000]

\* datetime.fromisoformat() of such a string
_parse_iso_utc(s) == s.sec * 1000000 + s.us

_make_node(level, lord, start, end) ==
  [level |-> level, lord |-> lord, start |-> _iso(start), end |-> _iso(end)]

_attach_children(node, key, children) ==
  IF children # <<>> THEN node @@ (key :> children) ELSE node

\* results of a call
Ok(v) == [kind |-> "ok", value |-> v]
ValueError == [kind |-> "ValueError"]
NoResult == [kind |-> "none"]

(***************************************************************************)
(* build_level_list: one level, lazily, inside [start_utc, end_utc]        *)
(***************************************************************************)
\* a bug that drops the forcing of the end
ForceEnd_never(idx, raw_end, end_utc) == raw_end

\* "force exact end on last item": the last item, or one running past the window
ForceEnd(idx, raw_end, end_utc) ==
  IF idx = Len(ORDER) - 1 \/ raw_end > end_utc THEN end_utc ELSE raw_end

RECURSIVE level_loop(_, _, _, _, _, _, _)
level_loop(level, idx, cur_start, lord, parent_days, end_utc, out) ==
  IF idx >= Len(ORDER) THEN out
  ELSE
    LET sub_days == SubDays(parent_days, DASHA_YEARS[lord])
        raw_end == _add_days(cur_start, sub_days)
        cur_end == ForceEnd(idx, raw_end, end_utc)
        out2 == Append(out, _make_node(level, lord, cur_start, cur_end))
    IN  IF cur_end >= end_utc THEN out2
        ELSE level_loop(level, idx + 1, cur_end, _next_lord(lord), parent_days, end_utc, out2)

\* a bug that looks at the window before the lord
build_level_list_windowfirst(level, start_utc, end_utc, start_lord) ==
  IF end_utc <= start_utc THEN Ok(<<>>)
  ELSE IF start_lord \notin Lords THEN ValueError
  ELSE Ok(level_loop(level, 0, start_utc, start_lord,
                     [n |-> end_utc - start_utc, d |-> 1], end_utc, <<>>))

\* a bug that lets a zero-width window through
Degenerate_strict(start_utc, end_utc) == end_utc < start_utc

\* "if end_utc <= start_utc: return []"
Degenerate(start_utc, end_utc) == end_utc <= start_utc

build_level_list(level, start_utc, end_utc, start_lord) ==
  IF start_lord \notin Lords THEN ValueError
  ELSE IF Degenerate(start_utc, end_utc) THEN Ok(<<>>)
  ELSE Ok(level_loop(level, 0, start_utc, start_lord,
                     [n |-> end_utc - start_utc, d |-> 1], end_utc, <<>>))

(***************************************************************************)
(* The first mahadasha's years: the balance clamped to [0, full years].    *)
(* maha_balance_years is None or Given(years).                             *)
(***************************************************************************)
None == [given |-> FALSE, years |-> 0]
Given(years) == [given |-> TRUE, years |-> years]

\* a bug that forgets the upper clamp
ClampBalance_noupper(lord, maha_balance_years) ==
  IF ~maha_balance_years.given THEN DASHA_YEARS[lord] * YearUnits
  ELSE IF maha_balance_years.years < 0 THEN 0
  ELSE maha_balance_years.years

ClampBalance(lord, maha_balance_years) ==
  LET total == DASHA_YEARS[lord] * YearUnits
  IN  IF ~maha_balance_years.given THEN total
      ELSE IF maha_balance_years.years < 0 THEN 0
      ELSE IF maha_balance_years.years > total THEN total
      ELSE maha_balance_years.years

(***************************************************************************)
(* build_mahadasha_list_120y_9items: the balance, then 8 full mahadashas   *)
(***************************************************************************)
RECURSIVE full_md_loop(_, _, _, _)
full_md_loop(k, cur_start, lord, out) ==
  IF k >= 8 THEN out
  ELSE
    LET days == _days_of_years(DASHA_YEARS[lord] * YearUnits)
        end == _add_days(cur_start, days)
    IN  full_md_loop(k + 1, end, _next_lord(lord),
                     Append(out, _make_node("mahadasha", lord, cur_start, end)))

build_mahadasha_list_120y_9items(start_utc, maha_lord, maha_balance_years) ==
  IF maha_lord \notin Lords THEN ValueError
  ELSE
    LET first_years == ClampBalance(maha_lord, maha_balance_years)
        first_end == _add_days(start_utc, _days_of_years(first_years))
        first == _make_node("mahadasha", maha_lord, start_utc, first_end)
    IN  Ok(full_md_loop(0, first_end, _next_lord(maha_lord), <<first>>))

(***************************************************************************)
(* build_vimshottari_tree: one mahadasha and, eagerly, its nested levels.  *)
(* The four unrolled loops of the code are one loop here, run at depth     *)
(* 2 (bhukti), 3 (antara), 4 (sukshma) and 5 (prana).                      *)
(***************************************************************************)
\* TOTAL_YEARS = 120.0
TOTAL_YEARS == 120

LEVELS == <<"mahadasha", "bhukti", "antara", "sukshma", "prana">>

\* "if idx == len(ORDER) - 1: cur_end = maha_end"
TreeForceEnd(idx, raw_end, parent_end) ==
  IF idx = Len(ORDER) - 1 THEN parent_end ELSE raw_end

\* a bug that descends one level too far
Descend_inclusive(max_levels, depth) == max_levels >= depth /\ depth < Len(LEVELS)

\* "if max_levels > 2:" ... "if max_levels > 4:" under the node of level depth;
\* the code has no loop under a prana
Descend(max_levels, depth) == max_levels > depth /\ depth < Len(LEVELS)

RECURSIVE children_loop(_, _, _, _, _, _, _, _)
children_loop(depth, idx, cur_start, lord, parent_days, parent_end, max_levels, out) ==
  IF idx >= Len(ORDER) THEN out
  ELSE
    LET days == SubDays(parent_days, DASHA_YEARS[lord])
        raw_end == _add_days(cur_start, days)
        cur_end == TreeForceEnd(idx, raw_end, parent_end)
        node == _make_node(LEVELS[depth], lord, cur_start, cur_end)
        full == IF Descend(max_levels, depth)
                THEN _attach_children(node, LEVELS[depth + 1],
                       children_loop(depth + 1, 0, cur_start, lord, days, cur_end,
                                     max_levels, <<>>))
                ELSE node
    IN  children_loop(depth, idx + 1, cur_end, _next_lord(lord), parent_days,
                      parent_end, max_levels, Append(out, full))

build_vimshottari_tree(start_utc, maha_lord, maha_balance_years, max_levels) ==
  IF maha_lord \notin Lords THEN ValueError
  ELSE
    LET maha_years == ClampBalance(maha_lord, maha_balance_years)
        maha_days == _days_of_years(maha_years)
        maha_end == _add_days(start_utc, maha_days)
        maha_node == _make_node("mahadasha", maha_lord, start_utc, maha_end)
    IN  IF max_levels <= 1 THEN Ok(<<maha_node>>)
        ELSE Ok(<<_attach_children(maha_node, "bhukti",
                    children_loop(2, 0, start_utc, maha_lord, maha_days, maha_end,
                                  max_levels, <<>>))>>)

(***************************************************************************)
(* build_vimshottari_timeline_120y: mahadashas until 120 years are used.   *)
(* st holds the closure's cur_start, used_years and out; years lists the   *)
(* md_years of the nodes appended.                                         *)
(***************************************************************************)
\* the loop tolerance 1e-9 years, on the grid of year units
TolUnits == 2

Min(a, b) == IF a <= b THEN a ELSE b

_append_md(st, md_lord, md_years, max_levels) ==
  IF md_years <= 0 THEN st
  ELSE
    LET one == build_vimshottari_tree(st.cur_start, md_lord, Given(md_years), max_levels).value
        md_node == one[1]
    IN  [out |-> Append(st.out, md_node),
         cur_start |-> _parse_iso_utc(md_node.end),
         used_years |-> st.used_years + md_years,
         years |-> Append(st.years, md_years)]

\* a bug that drops the tolerance
MoreToUse_notol(used_years) == used_years < TOTAL_YEARS * YearUnits

\* "while used_years < TOTAL_YEARS - 1e-9"
MoreToUse(used_years) == used_years < TOTAL_YEARS * YearUnits - TolUnits

RECURSIVE timeline_loop(_, _, _)
timeline_loop(st, next_lord, max_levels) ==
  IF ~MoreToUse(st.used_years) THEN st
  ELSE
    LET remaining == TOTAL_YEARS * YearUnits - st.used_years
        full_years == DASHA_YEARS[next_lord] * YearUnits
    IN  timeline_loop(_append_md(st, next_lord, Min(full_years, remaining), max_levels),
                      _next_lord(next_lord), max_levels)

timeline_run(start_utc, maha_lord, maha_balance_years, max_levels) ==
  LET first_years == ClampBalance(maha_lord, maha_balance_years)
      st0 == [out |-> <<>>, cur_start |-> start_utc, used_years |-> 0, years |-> <<>>]
      remaining == TOTAL_YEARS * YearUnits - st0.used_years
      st1 == _append_md(st0, maha_lord, Min(first_years, remaining), max_levels)
  IN  timeline_loop(st1, _next_lord(maha_lord), max_levels)

build_vimshottari_timeline_120y(start_utc, maha_lord, maha_balance_years, max_levels) ==
  IF maha_lord \notin Lords THEN ValueError
  ELSE Ok(timeline_run(start_utc, maha_lord, maha_balance_years, max_levels).out)

(***************************************************************************)
(* kp_calc.py: the KP star / sub / sub-sub lattice.                        *)
(* A longitude is an integer count of 1/LonDen degree; on that grid every  *)
(* boundary of the three levels is a whole number (a star is 360/27 deg,   *)
(* a sub is years/9 deg, a sub-sub is years*years2/1080 deg).              *)
(***************************************************************************)
LonDen == 9 * 120

NAKSHATRA_LORDS ==
  <<"Ketu", "Venus", "Sun", "Moon", "Mars", "Rahu", "Jupiter", "Saturn", "Mercury",
    "Ketu", "Venus", "Sun", "Moon", "Mars", "Rahu", "Jupiter", "Saturn", "Mercury",
    "Ketu", "Venus", "Sun", "Moon", "Mars", "Rahu", "Jupiter", "Saturn", "Mercury">>

DASHA_ORDER ==
  <<[lord |-> "Ketu", years |-> 7], [lord |-> "Venus", years |-> 20],
    [lord |-> "Sun", years |-> 6], [lord |-> "Moon", years |-> 10],
    [lord |-> "Mars", years |-> 7], [lord |-> "Rahu", years |-> 18],
    [lord |-> "Jupiter", years |-> 16], [lord |-> "Saturn", years |-> 19],
    [lord |-> "Mercury", years |-> 17]>>

\* x % 360.0 (the result of % has the sign of 360.0, so the else branch is dead)
_norm360(x) ==
  LET m == x % (360 * LonDen)
  IN  IF m >= 0 THEN m ELSE m + 360 * LonDen

\* star_size = 360.0 / 27.0, the width of a star.  The binary64 quotient is
\* 40/3 + 2^-50.6, above the exact width by less than any grid step: star_size
\* is the exact width, and the excess shows only where FloorDivSpan divides by it.
star_size == (360 * LonDen) \div 27

\* grid point lon stands for lon / LonDen degrees, a binary64 value exactly
\* when the odd part of LonDen = 2^3 * 135 divides lon; only such a point can be
\* handed to the code as the exact longitude it stands for
IsBinary64(lon) == lon % (LonDen \div 8) = 0

\* lon // span for the binary64 span just above the exact one: k spans end just
\* above k exact widths, so a longitude that is exactly k widths (k > 0) is
\* still inside span k - 1
FloorDivSpan(lon, span) ==
  LET q == lon \div span
  IN  IF q > 0 /\ lon % span = 0 /\ IsBinary64(lon) THEN q - 1 ELSE q

\* int(lon // star_size)
StarIndex(lon) == FloorDivSpan(lon, star_size)

\* a bug that hands a point on a boundary to the next span
InSpan_strict(pos, upper) == pos < upper

\* the test "pos <= acc + span" of the three loops
InSpan(pos, upper) == pos <= upper

\* span_total * (years / TOTAL_YEARS)
SpanOf(span_total, years) == (span_total * years) \div TOTAL_YEARS

\* "for lord, years in DASHA_ORDER: ... if pos <= acc + span": the first entry
\* whose span takes pos, with the acc and span it was found at; found = FALSE is
\* the for loop running to its end
RECURSIVE span_loop(_, _, _, _)
span_loop(i, acc, pos, span_total) ==
  IF i > Len(DASHA_ORDER) THEN [found |-> FALSE]
  ELSE
    LET span == SpanOf(span_total, DASHA_ORDER[i].years)
    IN  IF InSpan(pos, acc + span)
        THEN [found |-> TRUE, lord |-> DASHA_ORDER[i].lord, acc |-> acc, span |-> span]
        ELSE span_loop(i + 1, acc + span, pos, span_total)

kp_star_sub(lon0) ==
  LET lon == _norm360(lon0)
      star_index == StarIndex(lon)
      star_lord == NAKSHATRA_LORDS[star_index + 1]
      pos_in_star == lon - star_index * star_size
      hit == span_loop(1, 0, pos_in_star, star_size)
  IN  IF hit.found THEN <<star_lord, hit.lord>>
      ELSE <<star_lord, DASHA_ORDER[Len(DASHA_ORDER)].lord>>

kp_star_sub_sub(lon0) ==
  LET ss == kp_star_sub(lon0)
      lon == _norm360(lon0)
      star_index == StarIndex(lon)
      pos_in_star == lon - star_index * star_size
      hit == span_loop(1, 0, pos_in_star, star_size)
      pos_in_sub == IF hit.found THEN pos_in_star - hit.acc ELSE 0
      sub_span == IF hit.found THEN hit.span ELSE star_size
      hit2 == span_loop(1, 0, pos_in_sub, sub_span)
  IN  IF hit2.found THEN <<ss[1], ss[2], hit2.lord>>
      ELSE <<ss[1], ss[2], DASHA_ORDER[Len(DASHA_ORDER)].lord>>

(***************************************************************************)
(* Calls: Init draws the arguments, the action applies the function.       *)
(***************************************************************************)
StartTimes == {0, 999990}

\* the module globals as the imports leave them: the empty dicts of main.py and
\* panchangam_calc.py, and _EPH = None in nasa_ephemeris.py and panchangam_calc.py
NotLoaded == [nasa_ephemeris |-> FALSE, panchangam_calc |-> FALSE, loads |-> 0]
EmptyDict == [k \in {} |-> 0]
NoGlobals ==
  /\ _SESSION = EmptyDict /\ _CACHE = EmptyDict /\ requests = 0
  /\ _PANCH_CACHE = EmptyDict /\ loaded = NotLoaded /\ clock = 0

Balances == {None} \cup {Given(y) : y \in -1..MaxBalance}

TreeBalances == {None} \cup {Given(y) : y \in -1..MaxTreeBalance}

InitLevel ==
  /\ pc = "call"
  /\ fn = "build_level_list"
  /\ \E level \in {"bhukti", "prana"}, s \in StartTimes, w \in -1..MaxWindow,
        lord \in Lords \cup InvalidLords :
       args = [level |-> level, start_utc |-> s, end_utc |-> s + w, start_lord |-> lord]
  /\ ret = NoResult
  /\ md_log = <<>>
  /\ NoGlobals

InitMaha ==
  /\ pc = "call"
  /\ fn = "build_mahadasha_list_120y_9items"
  /\ \E s \in StartTimes, lord \in Lords \cup InvalidLords, b \in Balances :
       args = [start_utc |-> s, maha_lord |-> lord, maha_balance_years |-> b]
  /\ ret = NoResult
  /\ md_log = <<>>
  /\ NoGlobals

InitTree ==
  /\ pc = "call"
  /\ fn = "build_vimshottari_tree"
  /\ \E lord \in Lords \cup InvalidLords, b \in TreeBalances, m \in -1..6 :
       args = [start_utc |-> 999990, maha_lord |-> lord, maha_balance_years |-> b,
               max_levels |-> m]
  /\ ret = NoResult
  /\ md_log = <<>>
  /\ NoGlobals

InitTimeline ==
  /\ pc = "call"
  /\ fn = "build_vimshottari_timeline_120y"
  /\ \E s \in StartTimes, lord \in Lords \cup InvalidLords, b \in Balances, m \in 1..2 :
       args = [start_utc |-> s, maha_lord |-> lord, maha_balance_years |-> b,
               max_levels |-> m]
  /\ ret = NoResult
  /\ md_log = <<>>
  /\ NoGlobals

InitKP ==
  /\ pc = "call"
  /\ fn = "kp_star_sub_sub"
  /\ \E x \in (0 - LonWrap)..(360 * LonDen + LonWrap) : args = [lon |-> x]
  /\ ret = NoResult
  /\ md_log = <<>>
  /\ NoGlobals

CallLevelList ==
  /\ pc = "call"
  /\ fn = "build_level_list"
  /\ ret' = build_level_list(args.level, args.start_utc, args.end_utc, args.start_lord)
  /\ pc' = "done"
  /\ UNCHANGED <<fn, args, md_log, _SESSION, _CACHE, requests, _PANCH_CACHE, loaded, clock>>

CallMaha ==
  /\ pc = "call"
  /\ fn = "build_mahadasha_list_120y_9items"
  /\ ret' = build_mahadasha_list_120y_9items(args.start_utc, args.maha_lord,
                                             args.maha_balance_years)
  /\ pc' = "done"
  /\ UNCHANGED <<fn, args, md_log, _SESSION, _CACHE, requests, _PANCH_CACHE, loaded, clock>>

CallTree ==
  /\ pc = "call"
  /\ fn = "build_vimshottari_tree"
  /\ ret' = build_vimshottari_tree(args.start_utc, args.maha_lord,
                                   args.maha_balance_years, args.max_levels)
  /\ pc' = "done"
  /\ UNCHANGED <<fn, args, md_log, _SESSION, _CACHE, requests, _PANCH_CACHE, loaded, clock>>

CallTimeline ==
  /\ pc = "call"
  /\ fn = "build_vimshottari_timeline_120y"
  /\ ret' = build_vimshottari_timeline_120y(args.start_utc, args.maha_lord,
                                            args.maha_balance_years, args.max_levels)
  /\ md_log' = IF args.maha_lord \in Lords
               THEN timeline_run(args.start_utc, args.maha_lord,
                                 args.maha_balance_years, args.max_levels).years
               ELSE <<>>
  /\ pc' = "done"
  /\ UNCHANGED <<fn, args, _SESSION, _CACHE, requests, _PANCH_CACHE, loaded, clock>>

CallKP ==
  /\ pc = "call"
  /\ fn = "kp_star_sub_sub"
  /\ ret' = Ok(kp_star_sub_sub(args.lon))
  /\ pc' = "done"
  /\ UNCHANGED <<fn, args, md_log, _SESSION, _CACHE, requests, _PANCH_CACHE, loaded, clock>>

NextLevel == CallLevelList
NextMaha == CallMaha
NextTree == CallTree
NextTimeline == CallTimeline
NextKP == CallKP

SpecLevel == InitLevel /\ [][NextLevel]_vars
SpecMaha == InitMaha /\ [][NextMaha]_vars
SpecTree == InitTree /\ [][NextTree]_vars
SpecTimeline == InitTimeline /\ [][NextTimeline]_vars
SpecKP == InitKP /\ [][NextKP]_vars

\* every period builder, for the claims that span them
InitPeriods == InitLevel \/ InitMaha \/ InitTree \/ InitTimeline
NextPeriods == CallLevelList \/ CallMaha \/ CallTree \/ CallTimeline
SpecPeriods == InitPeriods /\ [][NextPeriods]_vars

(***************************************************************************)
(* Helpers of the properties                                               *)
(***************************************************************************)
Done(f) == pc = "done" /\ fn = f
Returned(f) == Done(f) /\ ret.kind = "ok"
T(s) == _parse_iso_utc(s)
LevelNo(name) == CHOOSE i \in 1..Len(LEVELS) : LEVELS[i] = name

\* the sibling list ch is laid end to end over [start, end]
Contiguous(ch) == \A i \in 2..Len(ch) : ch[i].start = ch[i - 1].end
Covers(ch, start, end) ==
  /\ Len(ch) > 0
  /\ ch[1].start = start
  /\ ch[Len(ch)].end = end
  /\ Contiguous(ch)

RECURSIVE SumSpans(_, _)
SumSpans(ch, i) == IF i > Len(ch) THEN 0 ELSE T(ch[i].end) - T(ch[i].start) + SumSpans(ch, i + 1)

RECURSIVE SumSeq(_, _)
SumSeq(q, i) == IF i > Len(q) THEN 0 ELSE q[i] + SumSeq(q, i + 1)

\* the children of a tree node, <<>> when it carries none
ChildrenOf(node) ==
  LET k == LevelNo(node.level)
  IN  IF k < Len(LEVELS) /\ LEVELS[k + 1] \in DOMAIN node THEN node[LEVELS[k + 1]] ELSE <<>>

RECURSIVE PartitionOK(_)
PartitionOK(node) ==
  LET ch == ChildrenOf(node)
  IN  ch # <<>> =>
        /\ Len(ch) = Len(ORDER)
        /\ Covers(ch, node.start, node.end)
        /\ \A i \in 1..Len(ch) : T(ch[i].start) <= T(ch[i].end)
        /\ \A i \in 1..Len(ch) : PartitionOK(ch[i])

(***************************************************************************)
(* C1: in build_vimshottari_tree with max_levels in 2..5, the 9 children   *)
(* of every node at every level exactly partition their parent: the first  *)
(* starts at the parent's start, each later one at its predecessor's end,  *)
(* the last ends at the parent's end, and no child has start > end.        *)
(***************************************************************************)
C1_TreeChildrenPartitionParent ==
  (Returned("build_vimshottari_tree") /\ args.max_levels \in 2..5) =>
     /\ ChildrenOf(ret.value[1]) # <<>>
     /\ PartitionOK(ret.value[1])

(***************************************************************************)
(* C2: build_level_list with a valid start_lord and end_utc > start_utc    *)
(* returns contiguous nodes, the first starting at start_utc and the last  *)
(* ending at end_utc, so the spans sum to end_utc - start_utc.             *)
(***************************************************************************)
C2_LevelListCoversWindow ==
  (Returned("build_level_list") /\ args.end_utc > args.start_utc) =>
     /\ Covers(ret.value, _iso(args.start_utc), _iso(args.end_utc))
     /\ SumSpans(ret.value, 1) = args.end_utc - args.start_utc

\* a call whose raw eighth end ran past the window and was forced back
C2_Witness ==
  /\ Returned("build_level_list")
  /\ args.end_utc - args.start_utc = 12
  /\ args.start_lord = "Venus"
  /\ Len(ret.value) = 8
  /\ ret.value[8].end = _iso(args.end_utc)

LordsFrom(ch, first) ==
  \A i \in 1..Len(ch) : ch[i].lord = ORDER[((OrderIndex(first) + i - 1) % Len(ORDER)) + 1]

PosInStar == _norm360(args.lon) - StarIndex(_norm360(args.lon)) * star_size

\* the k-th lord of the cyclic order restarted at lord first
RotLord(first, k) == ORDER[((OrderIndex(first) + k - 1) % Len(ORDER)) + 1]

\* the upper bound of the k-th of the 9 spans that divide span_total by weight,
\* laid out in the cyclic order restarted at first
RECURSIVE RotCum(_, _, _)
RotCum(first, span_total, k) ==
  IF k = 0 THEN 0
  ELSE RotCum(first, span_total, k - 1)
       + (span_total * DASHA_YEARS[RotLord(first, k)]) \div 120

\* the width of the sub-span of lord sub inside a star
SubSpanOf(sub) == (star_size * DASHA_YEARS[sub]) \div 120

\* those bounds, tabulated: the sub-spans of a star and the sub-sub-spans of
\* the sub-span of lord sub, in the order restarted at first
StarCum == [first \in Lords |-> [k \in 0..Len(ORDER) |-> RotCum(first, star_size, k)]]
SubCum ==
  [sub \in Lords |-> [first \in Lords |->
     [k \in 0..Len(ORDER) |-> RotCum(first, SubSpanOf(sub), k)]]]

\* offset pos falls in the k-th span of the layout with upper bounds cum
InKth(cum, pos, k) ==
  /\ pos <= cum[k]
  /\ (cum[k - 1] < pos \/ (k = 1 /\ pos = 0))

\* the lord the layout restarted at first gives offset pos
LordAt(cum, first, pos) ==
  RotLord(first, CHOOSE k \in 1..Len(ORDER) : InKth(cum, pos, k))

\* where the sub-span that the code found for the call's longitude starts
SubStart(sub) == StarCum["Ketu"][OrderIndex(sub) + 1] - SubSpanOf(sub)

(***************************************************************************)
(* C4: in kp_star_sub the 9 sub-spans of a star are laid out in cyclic     *)
(* lord order starting from the star's own lord L: the first sub-span has  *)
(* sub lord L, the next the lord after L, and so on.                       *)
(***************************************************************************)
C4_SubSpansRestartAtStarLord ==
  Returned("kp_star_sub_sub") =>
     ret.value[2] = LordAt(StarCum[ret.value[1]], ret.value[1], PosInStar)

(***************************************************************************)
(* C5: in kp_star_sub_sub the 9 sub-sub-spans of a sub-span owned by lord  *)
(* S are laid out in cyclic lord order restarting at S: the first has      *)
(* sub-sub lord S, followed by the lords after S.                          *)
(***************************************************************************)
C5_SubSubSpansRestartAtSubLord ==
  Returned("kp_star_sub_sub") =>
     LET S == ret.value[2]
     IN  ret.value[3] = LordAt(SubCum[S][S], S, PosInStar - SubStart(S))

(***************************************************************************)
(* C6: for every longitude, normalized into [0,360), the star lord is the  *)
(* element of the cyclic order at position floor(lon / 13d20') mod 9, and  *)
(* the star index is always in 0..26.                                      *)
(***************************************************************************)
C6_StarLordIsIndexMod9 ==
  Returned("kp_star_sub_sub") =>
     LET lon == args.lon % (360 * LonDen)
         idx == (lon * 27) \div (360 * LonDen)
     IN  /\ StarIndex(_norm360(args.lon)) = idx
         /\ idx \in 0..26
         /\ ret.value[1] = ORDER[(idx % 9) + 1]

(***************************************************************************)
(* C7: in the sub and sub-sub lookup an offset p goes to the k-th span in  *)
(* iteration order exactly when (sum of the first k-1 spans) < p <= (sum   *)
(* of the first k spans), offset 0 going to the first span: an offset on   *)
(* a span's upper boundary belongs to that span.  Longitude 0.0 gives star *)
(* lord Ketu and sub lord Ketu.                                            *)
(***************************************************************************)
C7_UpperBoundaryInclusive ==
  Returned("kp_star_sub_sub") =>
     LET pos == PosInStar
         k1 == CHOOSE k \in 1..Len(ORDER) : InKth(StarCum["Ketu"], pos, k)
         sub == ORDER[k1]
         pos2 == pos - StarCum["Ketu"][k1 - 1]
         k2 == CHOOSE k \in 1..Len(ORDER) : InKth(SubCum[sub]["Ketu"], pos2, k)
     IN  /\ \E k \in 1..Len(ORDER) : InKth(StarCum["Ketu"], pos, k)
         /\ ret.value[2] = sub
         /\ \E k \in 1..Len(ORDER) : InKth(SubCum[sub]["Ketu"], pos2, k)
         /\ ret.value[3] = ORDER[k2]
         /\ (args.lon = 0 => ret.value[1] = "Ketu" /\ ret.value[2] = "Ketu")

\* 7/9 degree: exactly the upper boundary of the first sub-span of the first
\* star, and with it of the last sub-sub-span of that sub-span
C7_Witness ==
  /\ Returned("kp_star_sub_sub")
  /\ args.lon = (7 * LonDen) \div 9
  /\ PosInStar = StarCum["Ketu"][1]
  /\ ret.value = <<"Ketu", "Ketu", "Mercury">>

(***************************************************************************)
(* Helpers of the timeline properties                                      *)
(***************************************************************************)
Max(a, b) == IF a >= b THEN a ELSE b

FullUnits(lord) == DASHA_YEARS[lord] * YearUnits

\* the balance of the call clamped to [0, full years], in year units
Clamped ==
  IF args.maha_balance_years.given
  THEN Max(0, Min(args.maha_balance_years.years, FullUnits(args.maha_lord)))
  ELSE FullUnits(args.maha_lord)

\* years (in year units) as whole ticks
TicksOf(years) == RoundHalfEven(years * YearTicks, YearUnits)

(***************************************************************************)
(* C8 as stated: build_mahadasha_list_120y_9items returns 9 contiguous     *)
(* mahadashas that cover the 120-year horizon: the last node ends at       *)
(* start_utc plus 120 years.                                               *)
(***************************************************************************)
C8_NineItemsCover120Years ==
  Returned("build_mahadasha_list_120y_9items") =>
     /\ Len(ret.value) = Len(ORDER)
     /\ Covers(ret.value, _iso(args.start_utc),
               _iso(args.start_utc + TOTAL_YEARS * YearTicks))

(***************************************************************************)
(* C8 amended: build_mahadasha_list_120y_9items returns 9 contiguous       *)
(* mahadashas from start_utc, lords in cyclic order from maha_lord: the    *)
(* first spans the balance clamped to [0, full years] and the other 8      *)
(* their full years, so the last node ends at start_utc plus (clamped      *)
(* balance + 120 - full years of maha_lord) years; that is start_utc plus  *)
(* 120 years when the balance is omitted or at least the full years.       *)
(***************************************************************************)
C8_NineItemsCoverBalancePlusEightFull ==
  Returned("build_mahadasha_list_120y_9items") =>
     LET first_end == args.start_utc + TicksOf(Clamped)
         last_end == first_end + (TOTAL_YEARS - DASHA_YEARS[args.maha_lord]) * YearTicks
     IN  /\ Len(ret.value) = Len(ORDER)
         /\ LordsFrom(ret.value, args.maha_lord)
         /\ Covers(ret.value, _iso(args.start_utc), _iso(last_end))
         /\ ret.value[1].end = _iso(first_end)
         /\ \A i \in 2..Len(ret.value) :
              T(ret.value[i].end) - T(ret.value[i].start)
                = DASHA_YEARS[ret.value[i].lord] * YearTicks
         /\ (Clamped = FullUnits(args.maha_lord)
               => last_end = args.start_utc + TOTAL_YEARS * YearTicks)

\* a balance above Sun's 6 years, clamped: the list then does cover 120 years
C8_Witness ==
  /\ Returned("build_mahadasha_list_120y_9items")
  /\ args.maha_lord = "Sun"
  /\ args.maha_balance_years.given
  /\ args.maha_balance_years.years > FullUnits("Sun")
  /\ ret.value[Len(ret.value)].end = _iso(args.start_utc + TOTAL_YEARS * YearTicks)

\* the md_years of the nodes before the i-th
RECURSIVE UsedBefore(_)
UsedBefore(i) == IF i <= 1 THEN 0 ELSE UsedBefore(i - 1) + md_log[i - 1]

LordArg == IF fn = "build_level_list" THEN args.start_lord ELSE args.maha_lord

(***************************************************************************)
(* C10: every period builder called with a lord that is not one of the 9   *)
(* lords raises the input-validation error before any node is created,     *)
(* whatever the other arguments (a degenerate window included); it never   *)
(* returns a partial list or tree.                                         *)
(***************************************************************************)
C10_InvalidLordRaises ==
  (pc = "done" /\ LordArg \notin Lords) => (ret = ValueError /\ md_log = <<>>)

\* an invalid lord together with a degenerate window
C10_Witness ==
  /\ Done("build_level_list")
  /\ args.start_lord \in InvalidLords
  /\ args.end_utc <= args.start_utc
  /\ ret = ValueError

(***************************************************************************)
(* C11: build_level_list called with a valid start_lord and a degenerate   *)
(* window, end_utc <= start_utc (end_utc = start_utc included), returns an *)
(* empty list and raises no error.                                         *)
(***************************************************************************)
C11_DegenerateWindowGivesEmptyList ==
  (Done("build_level_list") /\ args.start_lord \in Lords
     /\ args.end_utc <= args.start_utc)
  => ret = Ok(<<>>)

\* a zero-width window
C11_Witness ==
  /\ Done("build_level_list")
  /\ args.start_lord \in Lords
  /\ args.end_utc = args.start_utc
  /\ ret = Ok(<<>>)

(***************************************************************************)
(* vimshottari_utils.py: the mahadasha lord and balance at a Moon          *)
(* longitude, on the grid of the lattice.  balance_years is the exact      *)
(* rational [n, d] of years.                                               *)
(***************************************************************************)
\* NAKSHATRA_SPAN = 13 + 20 / 60: the same binary64 value as star_size
NAKSHATRA_SPAN == 13 * LonDen + (20 * LonDen) \div 60

moon_vimshottari_info(moon_lon_sid) ==
  LET lon == moon_lon_sid % (360 * LonDen)
      nak_index == FloorDivSpan(lon, NAKSHATRA_SPAN)
      nak_offset == lon - nak_index * NAKSHATRA_SPAN
      lord == ORDER[(nak_index % 9) + 1]
      total_years == DASHA_YEARS[lord]
  IN  <<lord, [n |-> total_years * (NAKSHATRA_SPAN - nak_offset), d |-> NAKSHATRA_SPAN]>>

InitMoon ==
  /\ pc = "call"
  /\ fn = "moon_vimshottari_info"
  /\ \E x \in (0 - LonWrap)..(360 * LonDen + LonWrap) : args = [lon |-> x]
  /\ ret = NoResult
  /\ md_log = <<>>
  /\ NoGlobals

CallMoon ==
  /\ pc = "call"
  /\ fn = "moon_vimshottari_info"
  /\ ret' = Ok(moon_vimshottari_info(args.lon))
  /\ pc' = "done"
  /\ UNCHANGED <<fn, args, md_log, _SESSION, _CACHE, requests, _PANCH_CACHE, loaded, clock>>

NextMoon == CallMoon
SpecMoon == InitMoon /\ [][NextMoon]_vars

(***************************************************************************)
(* C12: for every Moon sidereal longitude, moon_vimshottari_info returns   *)
(* the lord at position (nakshatra index mod 9) of the cyclic order and    *)
(* balance_years = total_years(lord) * (1 - offset / 13d20'), which lies   *)
(* between 0 and total_years(lord); a longitude exactly on a nakshatra     *)
(* boundary yields the lord's full years.  (The lower bound is read in the *)
(* claim's favour as 0 <= balance: the grid cannot tell a balance a few    *)
(* ulps above 0 from 0.)                                                   *)
(***************************************************************************)
C12_MoonBalanceFromNakshatra ==
  Returned("moon_vimshottari_info") =>
     LET lon == args.lon % (360 * LonDen)
         idx == (lon * 27) \div (360 * LonDen)
         off == lon - idx * ((360 * LonDen) \div 27)
         lord == ORDER[(idx % 9) + 1]
         bal == ret.value[2]
     IN  /\ ret.value[1] = lord
         /\ bal.d = (360 * LonDen) \div 27
         /\ bal.n = DASHA_YEARS[lord] * (bal.d - off)
         /\ 0 <= bal.n /\ bal.n <= DASHA_YEARS[lord] * bal.d
         /\ (off = 0 => bal.n = DASHA_YEARS[lord] * bal.d)

(***************************************************************************)
(* houses_placidus.py: Placidus cusps.  An angle is a whole number of      *)
(* degrees (radians in the code are degrees here), a residual likewise;    *)
(* below that resolution "abs(y) < 1e-11" and "abs(den) < 1e-14" are y = 0 *)
(* and den = 0, and a secant step lands on the nearest whole degree.       *)
(* The trigonometry of ecl_to_equ, _semi_diurnal_arc and asc_longitude_deg *)
(* is replaced by piecewise-linear stand-ins with the same ranges, clamps  *)
(* and wrap-arounds; what the solver does with the residuals is the code's. *)
(***************************************************************************)
\* x % 360.0
_wrap360(x) == x % 360

\* (x + pi) % (2 * pi) - pi
_wrap_pi(x) == ((x + 180) % 360) - 180

Abs(x) == IF x < 0 THEN 0 - x ELSE x

\* 90 * sin(x), as a triangle wave
Sin90(x) ==
  LET a == x % 360
  IN  IF a <= 90 THEN a ELSE IF a <= 270 THEN 180 - a ELSE a - 360

\* max(-1.0, min(1.0, v)), for v in 1/90
Clamp1(v) == IF v < -90 THEN -90 ELSE IF v > 90 THEN 90 ELSE v

\* mean_obliquity_deg(jd): 23.4 degrees, to within 0.3 over +-2000 years
mean_obliquity_deg == 23

\* ecl_to_equ(lam, 0, eps): ra follows lam, dec swings between -eps and +eps
ecl_to_equ(lam, eps) == [ra |-> lam % 360, dec |-> (eps * Sin90(lam)) \div 90]

\* acos(clamp(-tan(phi) * tan(dec))): 90 on the equator, clamped to 0 or 180
\* once phi + dec passes 90
_semi_diurnal_arc(phi, dec) == 90 + Clamp1((phi * dec) \div 17)

\* atan2(sin(theta), cos(theta)), wrapped
mc_longitude_deg(theta) == _wrap360(theta)

\* atan2(-cos(theta), sin(theta) * cos(eps) + tan(phi) * sin(eps)), wrapped
asc_longitude_deg(theta, eps, phi) ==
  _wrap360(theta - 90 - (Clamp1(phi) * eps * Sin90(theta + 90)) \div (90 * 90))

\* the residual f(lam) of _solve_cusp; frac is frac3 / 3
Residual(theta, eps, phi, frac3, lam) ==
  LET equ == ecl_to_equ(lam, eps)
      sda == _semi_diurnal_arc(phi, equ.dec)
      h_target == (frac3 * sda) \div 3
      h == _wrap_pi(theta - equ.ra)
  IN  _wrap_pi(h - h_target)

\* the coarse search "for k in range(-120, 121, 5)", i-th trial point
CoarsePoints == 49

RECURSIVE coarse_loop(_, _, _, _, _, _, _, _)
coarse_loop(i, guess, best, best_val, seen, theta, eps, phi_frac) ==
  IF i >= CoarsePoints THEN [best |-> best, best_val |-> best_val, seen |-> seen]
  ELSE
    LET lam == (guess + (5 * i - 120)) % 360
        v == Abs(Residual(theta, eps, phi_frac[1], phi_frac[2], lam))
    IN  IF v < best_val
        THEN coarse_loop(i + 1, guess, lam, v, Append(seen, lam), theta, eps, phi_frac)
        ELSE coarse_loop(i + 1, guess, best, best_val, Append(seen, lam), theta, eps, phi_frac)

\* y1 * (x1 - x0) / den, to the nearest degree
SecantStep(y1, dx, den) ==
  IF den > 0 THEN RoundHalfEven(y1 * dx, den) ELSE RoundHalfEven(0 - y1 * dx, 0 - den)

SecantIters == 40

\* a bug that grants one iteration more
BudgetLeft_inclusive(iters) == iters <= SecantIters

\* range(40) has another value to give
BudgetLeft(iters) == iters < SecantIters

\* "for _ in range(40)": st = [x0, y0, x1, y1, iters, seen]
RECURSIVE secant_loop(_, _, _, _, _)
secant_loop(st, theta, eps, phi, frac3) ==
  IF ~BudgetLeft(st.iters) THEN st
  ELSE
    LET den == st.y1 - st.y0
    IN  IF den = 0 THEN st
        ELSE
          LET x2 == (st.x1 - SecantStep(st.y1, st.x1 - st.x0, den)) % 360
              y2 == Residual(theta, eps, phi, frac3, x2)
              st2 == [x0 |-> st.x1, y0 |-> st.y1, x1 |-> x2, y1 |-> y2,
                      iters |-> st.iters + 1, seen |-> Append(st.seen, x2)]
          IN  IF y2 = 0 THEN st2 ELSE secant_loop(st2, theta, eps, phi, frac3)

\* _solve_cusp up to its return: the last iterate with its residual, the number
\* of secant iterations and, in seen, every point f was evaluated at
solve_run(theta, eps, phi, guess_deg, frac3) ==
  LET guess == _wrap360(guess_deg)
      c == coarse_loop(0, guess, guess, 1000000000, <<>>, theta, eps, <<phi, frac3>>)
      x0 == (c.best - 2) % 360
      x1 == (c.best + 2) % 360
  IN  secant_loop([x0 |-> x0, y0 |-> Residual(theta, eps, phi, frac3, x0),
                   x1 |-> x1, y1 |-> Residual(theta, eps, phi, frac3, x1),
                   iters |-> 0, seen |-> c.seen \o <<x0, x1>>],
                  theta, eps, phi, frac3)

_solve_cusp(theta, eps, phi, guess_deg, frac3) ==
  _wrap360(solve_run(theta, eps, phi, guess_deg, frac3).x1)

\* FLIP_ASC_180
FLIP_ASC_180 == TRUE

\* a bug that turns a quadrant instead of half the circle
Antipode_quadrant(x) == _wrap360(x + 90)

\* _wrap360(x + 180.0)
Antipode(x) == _wrap360(x + 180)

\* placidus_cusps(jd, lat_deg, lon_deg_east); theta is lst_rad(jd, lon_deg_east),
\* the only way jd and the longitude enter besides the obliquity
placidus_cusps(theta, lat_deg) ==
  LET eps == mean_obliquity_deg
      phi == lat_deg
      asc0 == asc_longitude_deg(theta, eps, phi)
      mc == mc_longitude_deg(theta)
      asc == IF FLIP_ASC_180 THEN _wrap360(asc0 + 180) ELSE asc0
      h11 == _solve_cusp(theta, eps, phi, mc - 30, -1)
      h12 == _solve_cusp(theta, eps, phi, mc - 60, -2)
      h9 == _solve_cusp(theta, eps, phi, mc + 30, 1)
      h8 == _solve_cusp(theta, eps, phi, mc + 60, 2)
  IN  [asc |-> asc, mc |-> mc, house1 |-> asc, house2 |-> Antipode(h8),
       house3 |-> Antipode(h9), house4 |-> Antipode(mc), house5 |-> Antipode(h11),
       house6 |-> Antipode(h12), house7 |-> Antipode(asc), house8 |-> h8,
       house9 |-> h9, house10 |-> mc, house11 |-> h11, house12 |-> h12]

\* siderealize_cusps: "NO-OP BY DESIGN"
siderealize_cusps(cusps_trop, ayanamsa_deg) == cusps_trop

\* the sidereal times and the latitudes of the calls
ThetaStep == 3
Thetas == {t \in 0..359 : t % ThetaStep = 0}
Latitudes == {-89, -67, -45, 0, 13, 45, 67, 89}

\* the four calls of _solve_cusp that placidus_cusps makes: houses 11, 12, 9, 8
SolveCalls == {<<-30, -1>>, <<-60, -2>>, <<30, 1>>, <<60, 2>>}

InitPlacidus ==
  /\ pc = "call"
  /\ fn = "placidus_cusps"
  /\ \E t \in Thetas, lat \in Latitudes : args = [theta |-> t, lat_deg |-> lat]
  /\ ret = NoResult
  /\ md_log = <<>>
  /\ NoGlobals

InitSolve ==
  /\ pc = "call"
  /\ fn = "_solve_cusp"
  /\ \E t \in Thetas, lat \in Latitudes, c \in SolveCalls :
       args = [theta |-> t, eps |-> mean_obliquity_deg, phi |-> lat,
               guess_deg |-> mc_longitude_deg(t) + c[1], frac3 |-> c[2]]
  /\ ret = NoResult
  /\ md_log = <<>>
  /\ NoGlobals

CallPlacidus ==
  /\ pc = "call"
  /\ fn = "placidus_cusps"
  /\ ret' = Ok(placidus_cusps(args.theta, args.lat_deg))
  /\ pc' = "done"
  /\ UNCHANGED <<fn, args, md_log, _SESSION, _CACHE, requests, _PANCH_CACHE, loaded, clock>>

CallSolve ==
  /\ pc = "call"
  /\ fn = "_solve_cusp"
  /\ ret' = Ok(_solve_cusp(args.theta, args.eps, args.phi, args.guess_deg, args.frac3))
  /\ pc' = "done"
  /\ UNCHANGED <<fn, args, md_log, _SESSION, _CACHE, requests, _PANCH_CACHE, loaded, clock>>

InitHouses == InitPlacidus \/ InitSolve
NextHouses == CallPlacidus \/ CallSolve
SpecHouses == InitHouses /\ [][NextHouses]_vars

\* the run of _solve_cusp for the arguments of the call
SolveRun == solve_run(args.theta, args.eps, args.phi, args.guess_deg, args.frac3)

ResidualAt(lam) == Abs(Residual(args.theta, args.eps, args.phi, args.frac3, lam))

HouseKeys ==
  <<"house1", "house2", "house3", "house4", "house5", "house6",
    "house7", "house8", "house9", "house10", "house11", "house12">>

(***************************************************************************)
(* C13: for every input, placidus_cusps returns exactly the 14 keys asc,   *)
(* mc, house1..house12, with asc = house1 and mc = house10; the opposite   *)
(* pairs 1/7, 2/8, 3/9, 4/10, 5/11, 6/12 differ by exactly 180 degrees     *)
(* modulo 360, houses 4, 5, 6, 7, 2, 3 being the antipodes of 10, 11, 12,  *)
(* 1, 8, 9, whatever values the four solved cusps take.                    *)
(***************************************************************************)
C13_FourteenKeysOppositePairs ==
  Returned("placidus_cusps") =>
     LET c == ret.value
     IN  /\ DOMAIN c = {"asc", "mc"} \cup {HouseKeys[i] : i \in 1..12}
         /\ c.asc = c.house1
         /\ c.mc = c.house10
         /\ \A i \in 1..6 : (c[HouseKeys[i + 6]] - c[HouseKeys[i]]) % 360 = 180

\* a chart at 67 degrees north whose 11th cusp lies past 180 degrees, so that
\* its antipode, the 5th, wraps around 360
C13_Witness ==
  /\ Returned("placidus_cusps")
  /\ args.lat_deg = 67
  /\ ret.value.house11 > 180
  /\ ret.value.house5 = ret.value.house11 - 180
  /\ ret.value.house8 # _wrap360(ret.value.mc + 60)

(***************************************************************************)
(* C16: when the secant refinement of _solve_cusp stops without reaching   *)
(* |residual| < 1e-11 (the 40 iterations used up, or the denominator       *)
(* y1 - y0 vanishing), the function raises nothing and returns the best    *)
(* candidate found: the trial longitude with the smallest absolute         *)
(* residual among all the points it evaluated, coarse grid and secant      *)
(* iterates.                                                               *)
(***************************************************************************)
C16_NonConvergenceReturnsBestCandidate ==
  (Done("_solve_cusp") /\ SolveRun.y1 # 0) =>
     /\ ret.kind = "ok"
     /\ \A i \in 1..Len(SolveRun.seen) : ResidualAt(ret.value) <= ResidualAt(SolveRun.seen[i])

(***************************************************************************)
(* main.py: the request handlers.  Longitudes are on the grid of the       *)
(* lattice (1/LonDen degree); the cusps of placidus_cusps, whole degrees,  *)
(* enter it multiplied by LonDen.  get_planets_ecliptic is the provider:   *)
(* its answer (jd_ut, planets) to a request is part of the call's          *)
(* arguments, and so is the reading of time.time().  A request has one tz  *)
(* and one place; its datetimeLocal is a count of seconds.                 *)
(***************************************************************************)
\* x % 360.0 (the else branch is dead, as in _norm360)
norm360(x) ==
  LET m == x % (360 * LonDen)
  IN  IF m >= 0 THEN m ELSE m + 360 * LonDen

\* wrap360 of panchangam_calc.py
wrap360(x) ==
  LET m == x % (360 * LonDen)
  IN  IF m >= 0 THEN m ELSE m + 360 * LonDen

\* _abs_to_dms: degrees, minutes and rounded seconds, with the two carries
_abs_to_dms(abs_deg) ==
  LET a == abs_deg % (360 * LonDen)
      deg == a \div LonDen
      minute == ((a % LonDen) * 60) \div LonDen
      sec == RoundHalfEven(((a % LonDen) * 60 - minute * LonDen) * 60, LonDen)
      minute2 == IF sec >= 60 THEN minute + 1 ELSE minute
      deg2 == IF minute2 >= 60 THEN deg + 1 ELSE deg
  IN  [deg |-> deg2 % 360,
       min |-> IF minute2 >= 60 THEN minute2 - 60 ELSE minute2,
       sec |-> IF sec >= 60 THEN sec - 60 ELSE sec]

\* the values of the request field ayanamsa
AyanamsaFields == {"KP", "L"}

normalize_ayanamsa_name(v) == IF v \in {"LAHIRI", "L"} THEN "LAHIRI" ELSE "KP"

\* ayanamsa_lahiri_approx_deg(jd_ut) at the date of the requests: 23.86 degrees
ayanamsa_lahiri_approx_deg == (2386 * LonDen) \div 100

\* mean_lunar_node_tropical_deg(jd_ut) at the date of the requests: 125.04 degrees
mean_lunar_node_tropical_deg == (12504 * LonDen) \div 100

\* "KP = Lahiri - 0.1015"
pick_ayanamsa_deg(ayanamsa_name) ==
  IF ayanamsa_name = "KP"
  THEN ayanamsa_lahiri_approx_deg - (1015 * LonDen) \div 10000
  ELSE ayanamsa_lahiri_approx_deg

\* _make_key: the sha1 of the string is the string itself here (no collisions);
\* the datetime goes into its 1-minute bucket
_bucket_datetimeLocal(dt_local, bucket_sec) == dt_local - (dt_local % bucket_sec)

_make_key(datetimeLocal, ayanamsa) == <<_bucket_datetimeLocal(datetimeLocal, 60), ayanamsa>>

TTL_SEC == 6 * 60 * 60

\* one dict without its entries older than TTL_SEC
Purge(dict, now) ==
  LET live == {k \in DOMAIN dict : ~(now - dict[k]._ts > TTL_SEC)}
  IN  [k \in live |-> dict[k]]

\* _cache_get after its _gc(): the value stored under key, if any
Miss == [hit |-> FALSE]
Hit(data) == [hit |-> TRUE, data |-> data]

_cache_get(cache, key) == IF key \in DOMAIN cache THEN Hit(cache[key].data) ELSE Miss

\* _cache_set after its _gc(): dict[key] = {"_ts": now, "data": data}
Store(dict, key, now, data) ==
  [k \in DOMAIN dict \cup {key} |-> IF k = key THEN [_ts |-> now, data |-> data] ELSE dict[k]]

\* "cached = _cache_get(key); if cached: return cached" and, on a miss,
\* "_cache_set(key, data); return data", on the purged dicts
Answer(cached, data, cache1, session1, key, now) ==
  IF cached.hit
  THEN [ret |-> Ok(cached.data), cache |-> cache1, session |-> session1]
  ELSE [ret |-> Ok(data), cache |-> Store(cache1, key, now, data), session |-> session1]

\* calc_rahu_ketu(moon_lon)
calc_rahu_ketu(moon_lon) ==
  LET rahu == moon_lon % (360 * LonDen)
  IN  <<rahu, (rahu + 180 * LonDen) % (360 * LonDen)>>

\* str(name).lower(), for the names the provider uses
Lower(nm) ==
  IF nm = "Moon" THEN "moon"
  ELSE IF nm = "Sun" THEN "sun"
  ELSE IF nm = "Mercury" THEN "mercury" ELSE nm

\* the first index of q whose element's lowered name is nm, 0 if none
RECURSIVE FindLower(_, _, _)
FindLower(q, nm, i) ==
  IF i > Len(q) THEN 0 ELSE IF Lower(q[i].name) = nm THEN i ELSE FindLower(q, nm, i + 1)

\* the last index of q whose element's lowered name is nm, 0 if none
RECURSIVE FindLastLower(_, _, _)
FindLastLower(q, nm, i) ==
  IF i < 1 THEN 0 ELSE IF Lower(q[i].name) = nm THEN i ELSE FindLastLower(q, nm, i - 1)

\* the last index of q whose element has name nm, 0 if none
RECURSIVE FindLastName(_, _, _)
FindLastName(q, nm, i) ==
  IF i < 1 THEN 0 ELSE IF q[i].name = nm THEN i ELSE FindLastName(q, nm, i - 1)

IndexError == [kind |-> "IndexError"]

\* one row of "enriched": the provider's row (lat and dist_au, passed through
\* untouched, are left out) with the lordship triple of kp_star_sub_sub(lon)
Enriched(name, lon, speed_lon) ==
  LET kp == kp_star_sub_sub(lon)
  IN  [name |-> name, lon |-> lon, speed_lon |-> speed_lon,
       starLord |-> kp[1], subLord |-> kp[2], subSubLord |-> kp[3]]

\* nasa_positions: st = [cache, session] on entry; the result carries them on exit
nasa_positions(req, st) ==
  LET ayan_name == normalize_ayanamsa_name("KP")
      key == <<"nasa", _make_key(req.datetimeLocal, ayan_name)>>
      cache1 == Purge(st.cache, req.now)
      session1 == Purge(st.session, req.now)
      cached == _cache_get(cache1, key)
      planets == req.planets
      enriched == [i \in 1..Len(planets) |->
                     Enriched(planets[i].name, planets[i].lon, planets[i].speed_lon)]
      moon_i == FindLastName(planets, "Moon", Len(planets))
      rk == calc_rahu_ketu(planets[moon_i].lon)
      nodes == IF moon_i = 0 THEN <<>>
               ELSE <<Enriched("Rahu", rk[1], -53), Enriched("Ketu", rk[2], -53)>>
      out == [jd_ut |-> req.jd_ut, planets |-> enriched \o nodes]
  IN  Answer(cached, out, cache1, session1, key, req.now)

\* the charts (sidereal time, latitude) of the requests, and placidus_cusps on
\* each of them, computed once
ApiCharts == {0, 153} \X {13, 67}
CuspsTable == {[chart |-> c, cusps |-> placidus_cusps(c[1], c[2])] : c \in ApiCharts}
CuspsOfChart(theta, lat) == (CHOOSE r \in CuspsTable : r.chart = <<theta, lat>>).cusps

\* placidus_houses: no cache, no session
placidus_houses(req) ==
  LET cusps_trop == CuspsOfChart(req.theta, req.lat)
      cusps_sid == siderealize_cusps(cusps_trop, req.ayanamsa_deg)
  IN  Ok([cusps_tropical |-> cusps_trop, cusps_sidereal |-> cusps_sid])

\* the rows of kundali_planets and kp_graha_table (the empty signifies lists
\* are left out)
KundaliRow(name, lon_sid, retro) ==
  [planet |-> name, longitude |-> _abs_to_dms(lon_sid), retro |-> retro]

GrahaRow(name, lon_sid, retro) ==
  [planet |-> name, longitude |-> _abs_to_dms(lon_sid), retro |-> retro,
   starLord |-> "", subLord |-> "", subSubLord |-> ""]

\* the rows of bhavaCusps and of the KP bhava table
BhavaCuspRow(i, cusps_sid) ==
  [bhava |-> i, longitude |-> _abs_to_dms(cusps_sid[HouseKeys[i]])]

BhavaTableRow(row) ==
  [bhava |-> row.bhava, longitude |-> row.longitude,
   starLord |-> "", subLord |-> "", subSubLord |-> ""]

\* cusps_sid of astro_home: norm360(float(v) - float(ayan)) for every key
HomeCuspsSid(cusps_trop, ayan) ==
  [k \in DOMAIN cusps_trop |-> norm360(cusps_trop[k] * LonDen - ayan)]

astro_home(req, st) ==
  LET ayan_name == normalize_ayanamsa_name(req.ayanamsa)
      key == <<"home", _make_key(req.datetimeLocal, ayan_name)>>
      cache1 == Purge(st.cache, req.now)
      session1 == Purge(st.session, req.now)
      cached == _cache_get(cache1, key)
      planets == req.planets
      ayan == pick_ayanamsa_deg(ayan_name)
      rahu_trop == mean_lunar_node_tropical_deg
      ketu_trop == norm360(rahu_trop + 180 * LonDen)
      rahu_sid == norm360(rahu_trop - ayan)
      ketu_sid == norm360(ketu_trop - ayan)
      kundali_planets ==
        [i \in 1..Len(planets) |->
           KundaliRow(planets[i].name, norm360(planets[i].lon - ayan), planets[i].speed_lon < 0)]
        \o <<KundaliRow("Rahu", rahu_sid, TRUE), KundaliRow("Ketu", ketu_sid, TRUE)>>
      kp_graha_table ==
        [i \in 1..Len(planets) |->
           GrahaRow(planets[i].name, norm360(planets[i].lon - ayan), planets[i].speed_lon < 0)]
        \o <<GrahaRow("Rahu", rahu_sid, TRUE), GrahaRow("Ketu", ketu_sid, TRUE)>>
      cusps_sid == HomeCuspsSid(CuspsOfChart(req.theta, req.lat), ayan)
      bhava_cusps == [i \in 1..12 |-> BhavaCuspRow(i, cusps_sid)]
      kp_bhava_table == [i \in 1..12 |-> BhavaTableRow(BhavaCuspRow(i, cusps_sid))]
      resp == [meta |-> [jd_ut |-> req.jd_ut, ayanamsa |-> ayan_name, ayanamsaValueDeg |-> ayan],
               ayanamsaValueDeg |-> ayan,
               kundali |-> [planets |-> kundali_planets, bhavaCusps |-> bhava_cusps],
               kp |-> [ayanamsa |-> ayan, grahaTable |-> kp_graha_table,
                       bhavaTable |-> kp_bhava_table]]
  IN  Answer(cached, resp, cache1, session1, key, req.now)

\* _ensure_session: the session of a dasha request, stored in _SESSION (it does
\* not call _gc)
_ensure_session(req, st) ==
  LET ayan_name == normalize_ayanamsa_name(req.ayanamsa)
      ayan == pick_ayanamsa_deg(ayan_name)
      planets == req.planets
      moon_i == FindLower(planets, "moon", 1)
      moon_trop == planets[moon_i].lon % (360 * LonDen)
      moon_sid == norm360(moon_trop - ayan)
      info == moon_vimshottari_info(moon_sid)
      balance_years == IF info[2].n < 0 THEN [n |-> 0, d |-> info[2].d] ELSE info[2]
      key == _make_key(req.datetimeLocal, ayan_name)
      ses == [_ts |-> req.now, key |-> key, jd_ut |-> req.jd_ut, ayanamsa |-> ayan_name,
              ayan_deg |-> ayan, moon_sid |-> moon_sid, maha_lord |-> info[1],
              balance_years |-> balance_years, start_utc |-> req.datetimeLocal]
  IN  IF moon_i = 0
      THEN [ret |-> ValueError, cache |-> st.cache, session |-> st.session]
      ELSE [ret |-> Ok(ses), cache |-> st.cache,
            session |-> [k \in DOMAIN st.session \cup {key} |->
                           IF k = key THEN ses ELSE st.session[k]]]

\* _sun_moon_sid_at, given the provider's answer for dt_utc
_sun_moon_sid_at(planets, ayan_deg) ==
  LET sun_i == FindLastLower(planets, "sun", Len(planets))
      moon_i == FindLastLower(planets, "moon", Len(planets))
      fallback == sun_i = 0 \/ moon_i = 0
      sun_t == IF fallback THEN planets[1].lon ELSE planets[sun_i].lon
      moon_t == IF fallback THEN planets[2].lon ELSE planets[moon_i].lon
  IN  IF fallback /\ Len(planets) < 2 THEN IndexError
      ELSE Ok(<<wrap360(sun_t - ayan_deg), wrap360(moon_t - ayan_deg)>>)

\* how many requests a run of the service takes
MaxRequests == 2

\* the provider's rows: tropical longitude on the grid, speed in 1/1000 deg/day
SunRow == [name |-> "Sun", lon |-> 10 * LonDen, speed_lon |-> 986]
MoonRows ==
  {[name |-> "Moon", lon |-> l, speed_lon |-> 13176] : l \in {40 * LonDen, (401 * LonDen) \div 2}}
MercuryRow == [name |-> "Mercury", lon |-> 350 * LonDen, speed_lon |-> -500]

\* the provider's answers: with the Moon, and (a provider gone wrong) without
ProviderLists ==
  {<<SunRow, m>> : m \in MoonRows} \cup {<<SunRow, m, MercuryRow>> : m \in MoonRows}
  \cup {<<SunRow, MercuryRow>>, <<SunRow>>, <<>>}

\* the readings of time.time(): the start, and once the TTL has run out
Clock == {0, TTL_SEC + 1}

\* two instants of the same minute
DateTimes == {0, 30}

NasaReqs ==
  {[datetimeLocal |-> dt, jd_ut |-> dt, planets |-> pl, now |-> now] :
     dt \in DateTimes, pl \in ProviderLists, now \in Clock}

DashaBaseReqs ==
  {[datetimeLocal |-> dt, ayanamsa |-> ay, jd_ut |-> dt, planets |-> pl, now |-> now] :
     dt \in DateTimes, ay \in AyanamsaFields, pl \in ProviderLists, now \in Clock}

HomeReqs ==
  {[datetimeLocal |-> r.datetimeLocal, ayanamsa |-> r.ayanamsa, jd_ut |-> r.jd_ut,
    planets |-> r.planets, now |-> r.now, theta |-> 153, lat |-> 67] : r \in DashaBaseReqs}

PlacidusReqs ==
  {[theta |-> c[1], lat |-> c[2], ayanamsa_deg |-> ay] : c \in ApiCharts, ay \in {0, 24}}

SunMoonArgs ==
  {[planets |-> pl, ayan_deg |-> pick_ayanamsa_deg(normalize_ayanamsa_name(ay))] :
     pl \in ProviderLists, ay \in AyanamsaFields}

\* the calls that read or write the module globals, and the others
StatefulCalls ==
  {[fn |-> "nasa_positions", args |-> r] : r \in NasaReqs}
  \cup {[fn |-> "astro_home", args |-> r] : r \in HomeReqs}
  \cup {[fn |-> "_ensure_session", args |-> r] : r \in DashaBaseReqs}

StatelessCalls ==
  {[fn |-> "placidus_houses", args |-> r] : r \in PlacidusReqs}
  \cup {[fn |-> "_sun_moon_sid_at", args |-> r] : r \in SunMoonArgs}

InitApi ==
  /\ pc = "call"
  /\ \E c \in StatefulCalls \cup StatelessCalls : fn = c.fn /\ args = c.args
  /\ ret = NoResult
  /\ md_log = <<>>
  /\ _SESSION = EmptyDict
  /\ _CACHE = EmptyDict
  /\ requests = 1
  /\ _PANCH_CACHE = EmptyDict
  /\ loaded = NotLoaded
  /\ clock = 0

\* the next request arrives; the clock does not run backwards.  A call that
\* leaves the globals alone is only taken first: it changes nothing for the
\* calls after it.
NewRequest ==
  /\ pc = "done"
  /\ requests < MaxRequests
  /\ \E c \in StatefulCalls :
       /\ c.args.now >= (IF "now" \in DOMAIN args THEN args.now ELSE 0)
       /\ fn' = c.fn
       /\ args' = c.args
  /\ pc' = "call"
  /\ ret' = NoResult
  /\ requests' = requests + 1
  /\ UNCHANGED <<md_log, _SESSION, _CACHE, _PANCH_CACHE, loaded, clock>>

Globals == [cache |-> _CACHE, session |-> _SESSION]

CallNasa ==
  /\ pc = "call"
  /\ fn = "nasa_positions"
  /\ \E r \in {nasa_positions(args, Globals)} :
       ret' = r.ret /\ _CACHE' = r.cache /\ _SESSION' = r.session
  /\ pc' = "done"
  /\ UNCHANGED <<fn, args, md_log, requests, _PANCH_CACHE, loaded, clock>>

CallHome ==
  /\ pc = "call"
  /\ fn = "astro_home"
  /\ \E r \in {astro_home(args, Globals)} :
       ret' = r.ret /\ _CACHE' = r.cache /\ _SESSION' = r.session
  /\ pc' = "done"
  /\ UNCHANGED <<fn, args, md_log, requests, _PANCH_CACHE, loaded, clock>>

CallEnsureSession ==
  /\ pc = "call"
  /\ fn = "_ensure_session"
  /\ \E r \in {_ensure_session(args, Globals)} :
       ret' = r.ret /\ _CACHE' = r.cache /\ _SESSION' = r.session
  /\ pc' = "done"
  /\ UNCHANGED <<fn, args, md_log, requests, _PANCH_CACHE, loaded, clock>>

CallPlacidusHouses ==
  /\ pc = "call"
  /\ fn = "placidus_houses"
  /\ ret' = placidus_houses(args)
  /\ pc' = "done"
  /\ UNCHANGED <<fn, args, md_log, _SESSION, _CACHE, requests, _PANCH_CACHE, loaded, clock>>

CallSunMoon ==
  /\ pc = "call"
  /\ fn = "_sun_moon_sid_at"
  /\ ret' = _sun_moon_sid_at(args.planets, args.ayan_deg)
  /\ pc' = "done"
  /\ UNCHANGED <<fn, args, md_log, _SESSION, _CACHE, requests, _PANCH_CACHE, loaded, clock>>

NextApi ==
  \/ CallNasa
  \/ CallHome
  \/ CallEnsureSession
  \/ CallPlacidusHouses
  \/ CallSunMoon
  \/ NewRequest

SpecApi == InitApi /\ [][NextApi]_vars

(***************************************************************************)
(* C14: wherever the program exposes sidereal house cusps (cusps_sidereal  *)
(* of /api/astro/placidus, bhavaCusps of /api/astro/home), each sidereal   *)
(* cusp equals normalize(tropical cusp - ayanamsa) for the ayanamsa of     *)
(* that request; the cusp solver itself applies no ayanamsa.               *)
(***************************************************************************)
C14_SiderealCuspsAreTropicalMinusAyanamsa ==
  /\ Returned("placidus_houses") =>
       /\ ret.value.cusps_tropical = CuspsOfChart(args.theta, args.lat)
       /\ \A k \in DOMAIN ret.value.cusps_sidereal :
            ret.value.cusps_sidereal[k]
              = (ret.value.cusps_tropical[k] - args.ayanamsa_deg) % 360
  /\ Returned("astro_home") =>
       LET ayan == pick_ayanamsa_deg(normalize_ayanamsa_name(args.ayanamsa))
           trop == CuspsOfChart(args.theta, args.lat)
       IN  \A i \in 1..12 :
             ret.value.kundali.bhavaCusps[i].longitude
               = _abs_to_dms(norm360(trop[HouseKeys[i]] * LonDen - ayan))

(***************************************************************************)
(* C15: every lordship triple (starLord, subLord, subSubLord) the program  *)
(* reports for a body is computed from that body's ayanamsa-adjusted       *)
(* sidereal longitude, normalize(tropical longitude - ayanamsa), not from  *)
(* its tropical longitude.  (NASAReq has no ayanamsa field: the ayanamsa   *)
(* of a /api/astro/nasa request is the default, KP.)                       *)
(***************************************************************************)
C15_LordshipFromSiderealLongitude ==
  Returned("nasa_positions") =>
     LET ayan == pick_ayanamsa_deg(normalize_ayanamsa_name("KP"))
     IN  \A i \in 1..Len(ret.value.planets) :
           LET p == ret.value.planets[i]
           IN  <<p.starLord, p.subLord, p.subSubLord>>
                 = kp_star_sub_sub(norm360(p.lon - ayan))

\* the provider's list has no body named Moon
NoMoon(planets) == \A i \in 1..Len(planets) : planets[i].name # "Moon"

(***************************************************************************)
(* C18: every operation that needs the Moon's position (_ensure_session,   *)
(* _sun_moon_sid_at, nasa_positions) ends in a lookup error and produces   *)
(* no result when the provider's position list contains no body named      *)
(* Moon; none substitutes another body or silently continues.              *)
(* (nasa_positions is taken on an empty cache, where it asks the           *)
(* provider.)                                                              *)
(***************************************************************************)
C18_MissingMoonIsLookupError ==
  (/\ pc = "done"
   /\ fn \in {"_ensure_session", "_sun_moon_sid_at", "nasa_positions"}
   /\ requests = 1
   /\ NoMoon(args.planets))
  => ret.kind \in {"ValueError", "IndexError"}

(***************************************************************************)
(* panchangam_calc._bin_search_time: bisection over time.  An instant is   *)
(* a datetime, an integer number of microsecond ticks; fn is the table of  *)
(* the values the callable takes at the instants of the window.            *)
(***************************************************************************)

\* latest instant of a search window, in ticks
BisectSpan == 3

\* largest value the searched function takes
BisectVals == 2

\* iters: int = 44
BisectIters == 44

\* timedelta / 2: the quotient rounded to the nearest tick, halves to even
HalfDelta(d) ==
  LET q == d \div 2
  IN  IF d % 2 = 0 \/ q % 2 = 0 THEN q ELSE q + 1

\* the test of line 176 negated by an accepted target above both endpoints
Bracketed_above(fa0, fb0, target) == fa0 <= target \/ fb0 <= target

\* (fa0 <= target <= fb0) or (fb0 <= target <= fa0)
Bracketed(fa0, fb0, target) ==
  \/ (fa0 <= target /\ target <= fb0)
  \/ (fb0 <= target /\ target <= fa0)

\* a bug that also moves a onto a midpoint where fn equals the target
MoveLower_orequal(fm, target) == fm <= target

\* "if fm < target: a = mid", "else: b = mid"
MoveLower(fm, target) == fm < target

\* for _ in range(iters): st = [a, b, iters, mids, steps], mids the instants
\* evaluated, iters their number, steps the bounds after each iteration
RECURSIVE bisect_loop(_, _, _)
bisect_loop(f, target, st) ==
  IF st.iters >= BisectIters THEN st
  ELSE LET mid == st.a + HalfDelta(st.b - st.a)
           fm  == f[mid]
           a2  == IF MoveLower(fm, target) THEN mid ELSE st.a
           b2  == IF MoveLower(fm, target) THEN st.b ELSE mid
       IN  bisect_loop(f, target,
             [a     |-> a2,
              b     |-> b2,
              iters |-> st.iters + 1,
              mids  |-> Append(st.mids, mid),
              steps |-> Append(st.steps, [a |-> a2, b |-> b2])])

\* the whole search: the bounds at the return and the midpoints evaluated
bisect_run(f, target, t0, t1) ==
  LET st0 == [a |-> t0, b |-> t1, iters |-> 0, mids |-> <<>>, steps |-> <<>>]
  IN  IF ~Bracketed(f[t0], f[t1], target) THEN st0
      ELSE bisect_loop(f, target, st0)

_bin_search_time(f, target, t0, t1) == bisect_run(f, target, t0, t1).b

\* the instants of a window, the callables over them, the targets
Instants == 0..BisectSpan
Callables == [Instants -> 0..BisectVals]
Targets == (0 - 1)..(BisectVals + 1)

InitBisect ==
  /\ pc = "call"
  /\ fn = "_bin_search_time"
  /\ args \in [fn : Callables, target : Targets,
               t0 : Instants, t1 : Instants]
  /\ ret = "none"
  /\ md_log = <<>>
  /\ NoGlobals

CallBisect ==
  /\ pc = "call"
  /\ fn = "_bin_search_time"
  /\ ret' = [kind  |-> "ok",
             value |-> _bin_search_time(args.fn, args.target,
                                        args.t0, args.t1),
             mids  |-> bisect_run(args.fn, args.target,
                                  args.t0, args.t1).mids,
             steps |-> bisect_run(args.fn, args.target,
                                  args.t0, args.t1).steps]
  /\ pc' = "done"
  /\ UNCHANGED <<fn, args, md_log, _SESSION, _CACHE, requests, _PANCH_CACHE, loaded, clock>>

NextBisect == CallBisect
SpecBisect == InitBisect /\ [][NextBisect]_vars

\* the target lies outside the closed interval between fn(t0) and fn(t1)
Outside(f, target, t0, t1) ==
  \/ (target < f[t0] /\ target < f[t1])
  \/ (target > f[t0] /\ target > f[t1])

(***************************************************************************)
(* C19: _bin_search_time called with a target outside the closed interval  *)
(* between fn(t0) and fn(t1) returns t1 unchanged, evaluates fn at no      *)
(* midpoint and raises nothing.                                            *)
(***************************************************************************)
C19_UnbracketedTargetReturnsWindowEnd ==
  (Done("_bin_search_time")
     /\ Outside(args.fn, args.target, args.t0, args.t1))
    => /\ ret.kind = "ok"
       /\ ret.value = args.t1
       /\ ret.mids = <<>>

\* a search over the whole window whose target is above both endpoint values
C19_Witness ==
  /\ Done("_bin_search_time")
  /\ args.t0 = 0
  /\ args.t1 = BisectSpan
  /\ args.target > args.fn[args.t0]
  /\ args.target > args.fn[args.t1]
  /\ ret.value = BisectSpan
  /\ ret.mids = <<>>

(***************************************************************************)
(* panchangam_calc.compute_panchangam, the tithi of the sunrise: d0 is the *)
(* sidereal Moon minus Sun difference at sunrise, wrap360(moon0 - sun0),   *)
(* here on a grid of 1/DiffDen degree.  On binary64 floor(d0 / 12.0) is    *)
(* the exact floor: the quotient of a d0 below 12k never rounds up to k.   *)
(***************************************************************************)

\* grid units per degree of the difference
DiffDen == 10

TITHI_SPAN == 12 * DiffDen

TITHI_NAMES ==
  <<"Shukla Pratipada", "Shukla Dwitiya", "Shukla Tritiya",
    "Shukla Chaturthi", "Shukla Panchami", "Shukla Shashthi",
    "Shukla Saptami", "Shukla Ashtami", "Shukla Navami", "Shukla Dashami",
    "Shukla Ekadashi", "Shukla Dwadashi", "Shukla Trayodashi",
    "Shukla Chaturdashi", "Purnima",
    "Krishna Pratipada", "Krishna Dwitiya", "Krishna Tritiya",
    "Krishna Chaturthi", "Krishna Panchami", "Krishna Shashthi",
    "Krishna Saptami", "Krishna Ashtami", "Krishna Navami",
    "Krishna Dashami", "Krishna Ekadashi", "Krishna Dwadashi",
    "Krishna Trayodashi", "Krishna Chaturdashi", "Amavasya">>

\* list[i] of Python: an index outside -len..len-1 is an IndexError
ListItem(list, i) ==
  IF 0 <= i /\ i < Len(list) THEN Ok(list[i + 1])
  ELSE IF 0 - Len(list) <= i /\ i < 0 THEN Ok(list[Len(list) + i + 1])
  ELSE [kind |-> "IndexError"]

\* the index taken from the nearest multiple of the span, not from the floor
tithi_idx_nearest(d0) == ((d0 + TITHI_SPAN \div 2) \div TITHI_SPAN) + 1

\* int(math.floor(d0 / TITHI_SPAN)) + 1
tithi_idx(d0) == (d0 \div TITHI_SPAN) + 1

\* TITHI_NAMES[(tithi_idx - 1) % 30]
tithi_name(d0) == ListItem(TITHI_NAMES, (tithi_idx(d0) - 1) % 30)

\* (math.floor(d0 / TITHI_SPAN) + 1) * TITHI_SPAN
tithi_target(d0) == ((d0 \div TITHI_SPAN) + 1) * TITHI_SPAN

\* lines 225-228: the index, the name and the threshold of the end search
tithi_of_sunrise(d0) ==
  LET name == tithi_name(d0)
  IN  IF name.kind # "ok" THEN name
      ELSE Ok([tithi_idx    |-> tithi_idx(d0),
               tithi_name   |-> name.value,
               tithi_target |-> tithi_target(d0)])

(***************************************************************************)
(* compute_panchangam, the karana of the sunrise, from the same d0.  As    *)
(* for the tithi, floor(d0 / 6.0) is the exact floor on binary64.          *)
(***************************************************************************)
KARANA_SPAN == 6 * DiffDen

SPECIAL_LAST == <<"Shakuni", "Chatushpada", "Naga">>

\* rep = ["Bava", ...], the seven repeating names
rep == <<"Bava", "Balava", "Kaulava", "Taitila", "Garaja", "Vanija", "Vishti">>

\* a cycle that starts one place late
RepIndex_fromone(kar_idx) == (kar_idx - 1) % 7

\* (kar_idx - 2) % 7
RepIndex(kar_idx) == (kar_idx - 2) % 7

\* int(math.floor(d0 / KARANA_SPAN)) + 1
kar_idx(d0) == (d0 \div KARANA_SPAN) + 1

\* the if / elif / else of lines 250-256
kar_name(d0) ==
  IF kar_idx(d0) = 1 THEN Ok("Kimstughna")
  ELSE IF kar_idx(d0) >= 58 THEN ListItem(SPECIAL_LAST, kar_idx(d0) - 58)
  ELSE ListItem(rep, RepIndex(kar_idx(d0)))

\* (math.floor(d0 / KARANA_SPAN) + 1) * KARANA_SPAN
kar_target(d0) == ((d0 \div KARANA_SPAN) + 1) * KARANA_SPAN

\* lines 248-257: the index, the name and the threshold of the end search
karana_of_sunrise(d0) ==
  IF kar_name(d0).kind # "ok" THEN kar_name(d0)
  ELSE Ok([kar_idx    |-> kar_idx(d0),
           kar_name   |-> kar_name(d0).value,
           kar_target |-> kar_target(d0)])

\* the tithi and the karana of one sunrise; the first failing lookup ends the call
sunrise_elements(d0) ==
  IF tithi_of_sunrise(d0).kind # "ok" THEN tithi_of_sunrise(d0)
  ELSE IF karana_of_sunrise(d0).kind # "ok" THEN karana_of_sunrise(d0)
  ELSE Ok(tithi_of_sunrise(d0).value @@ karana_of_sunrise(d0).value)

\* the differences wrap360 yields: [0, 360), and 360.0 itself for a
\* difference a hair below zero
SunriseDiffs == 0..(360 * DiffDen)

InitTithi ==
  /\ pc = "call"
  /\ fn = "compute_panchangam"
  /\ \E d \in SunriseDiffs : args = [d0 |-> d]
  /\ ret = NoResult
  /\ md_log = <<>>
  /\ NoGlobals

CallTithi ==
  /\ pc = "call"
  /\ fn = "compute_panchangam"
  /\ ret' = sunrise_elements(args.d0)
  /\ pc' = "done"
  /\ UNCHANGED <<fn, args, md_log, _SESSION, _CACHE, requests, _PANCH_CACHE, loaded, clock>>

NextTithi == CallTithi
SpecTithi == InitTithi /\ [][NextTithi]_vars

(***************************************************************************)
(* C20: for every sunrise moon-minus-sun difference d in [0,360) the       *)
(* 1-based tithi index is floor(d/12)+1 and lies in 1..30: every d in      *)
(* [12(k-1), 12k) gives k (the grid point just below 12.0 gives 1, 12.0    *)
(* gives 2), the name lookup stays within the 30-entry table and yields    *)
(* the k-th name, and the threshold of the end search is 12k.              *)
(***************************************************************************)
C20_TithiIndexFloorRule ==
  (Done("compute_panchangam") /\ 0 <= args.d0 /\ args.d0 < 360 * DiffDen)
    => /\ ret.kind = "ok"
       /\ ret.value.tithi_idx \in 1..30
       /\ \A k \in 1..30 :
            (12 * (k - 1) * DiffDen <= args.d0 /\ args.d0 < 12 * k * DiffDen)
              => /\ ret.value.tithi_idx = k
                 /\ ret.value.tithi_name = TITHI_NAMES[k]
                 /\ ret.value.tithi_target = 12 * k * DiffDen
       /\ (args.d0 = 12 * DiffDen - 1 => ret.value.tithi_idx = 1)
       /\ (args.d0 = 12 * DiffDen => ret.value.tithi_idx = 2)

\* a sunrise difference of exactly 12.0 degrees, answered with the second tithi
C20_Witness ==
  /\ Done("compute_panchangam")
  /\ args.d0 = 12 * DiffDen
  /\ ret.kind = "ok"
  /\ ret.value.tithi_idx = 2
  /\ ret.value.tithi_name = "Shukla Dwitiya"
  /\ ret.value.tithi_target = 24 * DiffDen

(***************************************************************************)
(* The loops of the core, taken together.                                  *)
(***************************************************************************)
InitLoops ==
  InitSolve \/ InitBisect \/ InitLevel \/ InitMaha \/ InitTree \/ InitTimeline
NextLoops ==
  CallSolve \/ CallBisect \/ CallLevelList \/ CallMaha \/ CallTree \/ CallTimeline
SpecLoops == InitLoops /\ [][NextLoops]_vars

\* the coarse search of _solve_cusp for the arguments of the call
CoarseRun ==
  LET guess == _wrap360(args.guess_deg)
  IN  coarse_loop(0, guess, guess, 1000000000, <<>>, args.theta, args.eps,
                  <<args.phi, args.frac3>>)

\* no node of the subtree carries a child list of more than n nodes
RECURSIVE FanoutAtMost(_, _)
FanoutAtMost(node, n) ==
  \A key \in DOMAIN node \cap {"bhukti", "antara", "sukshma", "prana"} :
    /\ Len(node[key]) <= n
    /\ \A i \in 1..Len(node[key]) : FanoutAtMost(node[key][i], n)

(***************************************************************************)
(* C17: every loop of the core ends within a fixed number of iterations:   *)
(* the coarse search of _solve_cusp evaluates exactly 49 trial points, the *)
(* secant refinement runs at most 40 iterations, the time bisection runs   *)
(* exactly 44 iterations (none when the target is not bracketed), every    *)
(* period-subdivision loop makes at most 9 nodes per level, and the while  *)
(* loop of build_vimshottari_timeline_120y ends after at most 10           *)
(* mahadashas.                                                             *)
(***************************************************************************)
C17_EveryLoopIsBounded ==
  /\ Done("_solve_cusp") =>
       /\ Len(CoarseRun.seen) = 49
       /\ SolveRun.iters <= 40
       /\ Len(SolveRun.seen) = 49 + 2 + SolveRun.iters
  /\ Done("_bin_search_time") =>
       Len(ret.mids) =
         IF Outside(args.fn, args.target, args.t0, args.t1) THEN 0 ELSE 44
  /\ Returned("build_level_list") => Len(ret.value) <= 9
  /\ Returned("build_mahadasha_list_120y_9items") => Len(ret.value) <= 9
  /\ Returned("build_vimshottari_tree") =>
       \A i \in 1..Len(ret.value) : FanoutAtMost(ret.value[i], 9)
  /\ Returned("build_vimshottari_timeline_120y") =>
       /\ Len(ret.value) <= 10
       /\ Len(md_log) <= 10
       /\ \A i \in 1..Len(ret.value) : FanoutAtMost(ret.value[i], 9)

\* a solve that uses up its 40 secant iterations without a zero residual
C17_Witness ==
  /\ Done("_solve_cusp")
  /\ SolveRun.iters = 40
  /\ SolveRun.y1 # 0
  /\ Len(CoarseRun.seen) = 49

(***************************************************************************)
(* C21: for every sunrise moon-minus-sun difference d in [0,360) the       *)
(* 1-based karana index floor(d/6)+1 lies in 1..60 and is named without    *)
(* an out-of-range lookup: index 1 is Kimstughna, indexes 58, 59, 60 are   *)
(* Shakuni, Chatushpada, Naga, and indexes 2..57 cycle through Bava,       *)
(* Balava, Kaulava, Taitila, Garaja, Vanija, Vishti starting with Bava at  *)
(* index 2; the karana index is 2*tithi-1 or 2*tithi for the tithi index   *)
(* of the same d.                                                          *)
(***************************************************************************)
C21_KaranaIndexAndNames ==
  (Done("compute_panchangam") /\ 0 <= args.d0 /\ args.d0 < 360 * DiffDen)
    => /\ ret.kind = "ok"
       /\ ret.value.kar_idx \in 1..60
       /\ \A k \in 1..60 :
            (6 * (k - 1) * DiffDen <= args.d0 /\ args.d0 < 6 * k * DiffDen)
              => ret.value.kar_idx = k
       /\ (ret.value.kar_idx = 1 => ret.value.kar_name = "Kimstughna")
       /\ (ret.value.kar_idx = 58 => ret.value.kar_name = "Shakuni")
       /\ (ret.value.kar_idx = 59 => ret.value.kar_name = "Chatushpada")
       /\ (ret.value.kar_idx = 60 => ret.value.kar_name = "Naga")
       /\ \A j \in 0..55 :
            ret.value.kar_idx = j + 2 =>
              ret.value.kar_name =
                <<"Bava", "Balava", "Kaulava", "Taitila", "Garaja", "Vanija",
                  "Vishti">>[(j % 7) + 1]
       /\ ret.value.kar_idx \in {2 * ret.value.tithi_idx - 1, 2 * ret.value.tithi_idx}

\* a sunrise in the ninth karana, the second Bava of the cycle
C21_Witness ==
  /\ Done("compute_panchangam")
  /\ args.d0 = 48 * DiffDen
  /\ ret.kind = "ok"
  /\ ret.value.kar_idx = 9
  /\ ret.value.kar_name = "Bava"
  /\ ret.value.tithi_idx = 5

(***************************************************************************)
(* The angle normalizers on binary floats.  The lattice grid above has no  *)
(* point between 0 and 1/LonDen degree, where the floats of the code are   *)
(* dense; here an angle is a count of 1/FineDen degree and a float keeps   *)
(* a significand short enough for the grid to show its rounding: the       *)
(* floats of [256, 512) degrees are Ulp360 grid steps apart, those of      *)
(* [128, 256) half as far, and below 128 degrees every grid point is a     *)
(* float.  IEEE arithmetic is the same at every significand length:        *)
(* fmod is exact, a sum is rounded to the nearest float, ties to even.     *)
(***************************************************************************)
\* grid steps per degree
FineDen == 16

\* grid steps between neighbouring floats of [256, 512) degrees
Ulp360 == 4

\* 360.0
Turn == 360 * FineDen

\* the distance between neighbouring floats at the magnitude v >= 0
Spacing(v) ==
  IF v >= 256 * FineDen THEN Ulp360
  ELSE IF v >= 128 * FineDen THEN Ulp360 \div 2
  ELSE 1

\* the float nearest to v, ties to even
FloatRound(v) ==
  IF v >= 0 THEN RoundHalfEven(v, Spacing(v)) * Spacing(v)
  ELSE 0 - RoundHalfEven(0 - v, Spacing(0 - v)) * Spacing(0 - v)

IsFloat(v) == FloatRound(v) = v

\* x % 360.0 of Python: fmod(x, 360.0), exact and of the sign of x, to which
\* 360.0 is added (and the sum rounded) when it is negative
PyMod360(x) ==
  IF x >= 0 THEN x % Turn
  ELSE IF (0 - x) % Turn = 0 THEN 0
  ELSE FloatRound(Turn - ((0 - x) % Turn))

\* the normalizers by name: _wrap360 of houses_placidus returns x % 360.0;
\* norm360 (main), wrap360 (panchangam_calc) and _norm360 (kp_calc) go on with
\* "return x if x >= 0 else x + 360.0"
Normalizers == {"_wrap360", "norm360", "wrap360", "_norm360"}

Normalize(name, x) ==
  IF name = "_wrap360" THEN PyMod360(x)
  ELSE IF PyMod360(x) >= 0 THEN PyMod360(x)
  ELSE FloatRound(PyMod360(x) + Turn)

\* moon_sid of _ensure_session: norm360(moon_trop - float(ayan)), moon_trop
\* being float(lon) % 360.0
MoonSid(lon, ayan) == Normalize("norm360", FloatRound(PyMod360(lon) - ayan))

\* the floats handed to a normalizer: two turns either side of zero
FloatAngles == {x \in (0 - 2 * Turn)..(2 * Turn) : IsFloat(x)}

\* the ayanamsa values and the Moon longitudes around them
FineAyanamsas == {(95 * FineDen) \div 4, 24 * FineDen}
FineMoons ==
  {a + d : a \in FineAyanamsas, d \in (0 - Ulp360)..Ulp360}
    \cup {x \in FloatAngles : x % (30 * FineDen) = 0}

InitNormalize ==
  /\ pc = "call"
  /\ fn \in Normalizers
  /\ \E x \in FloatAngles : args = [x |-> x]
  /\ ret = NoResult
  /\ md_log = <<>>
  /\ NoGlobals

InitMoonSid ==
  /\ pc = "call"
  /\ fn = "moon_sid"
  /\ \E lon \in FineMoons, a \in FineAyanamsas : args = [lon |-> lon, ayan |-> a]
  /\ ret = NoResult
  /\ md_log = <<>>
  /\ NoGlobals

CallNormalize ==
  /\ pc = "call"
  /\ fn \in Normalizers
  /\ ret' = Ok(Normalize(fn, args.x))
  /\ pc' = "done"
  /\ UNCHANGED <<fn, args, md_log, _SESSION, _CACHE, requests, _PANCH_CACHE, loaded, clock>>

CallMoonSid ==
  /\ pc = "call"
  /\ fn = "moon_sid"
  /\ ret' = Ok(MoonSid(args.lon, args.ayan))
  /\ pc' = "done"
  /\ UNCHANGED <<fn, args, md_log, _SESSION, _CACHE, requests, _PANCH_CACHE, loaded, clock>>

InitAngles == InitNormalize \/ InitMoonSid
NextAngles == CallNormalize \/ CallMoonSid
SpecAngles == InitAngles /\ [][NextAngles]_vars

(***************************************************************************)
(* C22: every angle the program returns through a normalizer lies in       *)
(* [0, 360), and each normalizer is idempotent: normalizing its result     *)
(* again gives the same value, for every x, negative values and exact      *)
(* multiples of 360 included.                                              *)
(***************************************************************************)
C22_AnglesInRangeAndIdempotent ==
  /\ (pc = "done" /\ fn \in Normalizers) =>
       /\ ret.kind = "ok"
       /\ 0 <= ret.value /\ ret.value < Turn
       /\ Normalize(fn, ret.value) = ret.value
  /\ Done("moon_sid") => (0 <= ret.value /\ ret.value < Turn)

(***************************************************************************)
(* compute_panchangam with its result cache, called from several request   *)
(* handlers at once.  FastAPI runs the def endpoints in a thread pool, so  *)
(* the calls interleave between their accesses to _PANCH_CACHE; here pc,   *)
(* fn, args and ret hold one entry per thread.  A call is three steps:     *)
(* the lookup of lines 190-193, the computation of lines 195-275, and the  *)
(* store of lines 278-279.  One place and one tz; datetimeLocal counts     *)
(* hours, ayan_deg and the longitudes count 1/PanchDen degree, fine enough *)
(* for the four decimals of the cache key.                                 *)
(***************************************************************************)
Threads == {1, 2}

\* how many calls of compute_panchangam a run takes
MaxPanchCalls == 3

PanchDen == 3 * 100000

STAR_SPAN == (360 * PanchDen) \div 27

NAKSHATRA_NAMES ==
  <<"Ashwini", "Bharani", "Krittika", "Rohini", "Mrigashira", "Ardra",
    "Punarvasu", "Pushya", "Ashlesha", "Magha", "Purva Phalguni",
    "Uttara Phalguni", "Hasta", "Chitra", "Swati", "Vishakha", "Anuradha",
    "Jyeshtha", "Mula", "Purva Ashadha", "Uttara Ashadha", "Shravana",
    "Dhanishta", "Shatabhisha", "Purva Bhadrapada", "Uttara Bhadrapada",
    "Revati">>

_PANCH_TTL_SEC == 6 * 60 * 60

\* datetime.fromisoformat(datetimeLocal).date()
LocalDate(datetimeLocal) == datetimeLocal \div 24

\* _panch_key: the local date and f"{ayan_deg:.4f}" (tz, lat and lon are fixed)
_panch_key(datetimeLocal, ayan_deg) ==
  <<LocalDate(datetimeLocal), RoundHalfEven(ayan_deg, PanchDen \div 10000)>>

\* the KP ayanamsa 23.7585 degrees, and the tropical Sun and Moon the
\* provider gives for the sunrise of a local date; no Moon is put on the
\* exact boundary of a star
KpAyan == (237585 * (PanchDen \div 10000))
SunriseSky(date) ==
  IF date = 0
  THEN [sun |-> 10 * PanchDen, moon |-> 40 * PanchDen + KpAyan + 1]
  ELSE [sun |-> 11 * PanchDen, moon |-> 53 * PanchDen + KpAyan + 7]

\* lines 206-259 without the end instants: the names of the day's tithi,
\* nakshatra and karana
FreshPanchangam(datetimeLocal, ayan_deg) ==
  LET sky == SunriseSky(LocalDate(datetimeLocal))
      sun0 == (sky.sun - ayan_deg) % (360 * PanchDen)
      moon0 == (sky.moon - ayan_deg) % (360 * PanchDen)
      d0 == (moon0 - sun0) % (360 * PanchDen)
      el == sunrise_elements((d0 * DiffDen) \div PanchDen)
      nak_idx == (moon0 \div STAR_SPAN) + 1
      nak_name == ListItem(NAKSHATRA_NAMES, (nak_idx - 1) % 27)
  IN  IF el.kind # "ok" THEN el
      ELSE IF nak_name.kind # "ok" THEN nak_name
      ELSE Ok([tithi |-> el.value.tithi_name, nakshatra |-> nak_name.value,
               karana |-> el.value.kar_name])

\* a TTL test that still serves the entry one second past the limit
Expired_late(age) == age > _PANCH_TTL_SEC + 1

\* (time.time() - float(v.get("_ts", 0))) > _PANCH_TTL_SEC
Expired(age) == age > _PANCH_TTL_SEC

\* _sf_loaded and _ensure_loaded, each run to its end: the module that has no
\* dataset yet loads de440s.bsp
LoadBoth(l) ==
  [nasa_ephemeris |-> TRUE, panchangam_calc |-> TRUE,
   loads |-> l.loads + (IF l.nasa_ephemeris THEN 0 ELSE 1)
                     + (IF l.panchangam_calc THEN 0 ELSE 1)]

PanchArgs ==
  [datetimeLocal : {6, 18, 30}, ayan_deg : {KpAyan, KpAyan + 2, KpAyan + 30}]

InitPanch ==
  /\ pc = [t \in Threads |-> "call"]
  /\ fn = [t \in Threads |-> "compute_panchangam"]
  /\ args \in [Threads -> PanchArgs]
  /\ ret = [t \in Threads |-> NoResult]
  /\ md_log = <<>>
  /\ _SESSION = EmptyDict
  /\ _CACHE = EmptyDict
  /\ requests = Cardinality(Threads)
  /\ _PANCH_CACHE = EmptyDict
  /\ loaded = NotLoaded
  /\ clock = 0

\* key = _panch_key(...); hit = _panch_cache_get(key); if hit: return hit
PanchLookup(t) ==
  LET key == _panch_key(args[t].datetimeLocal, args[t].ayan_deg)
  IN  /\ pc[t] = "call"
      /\ IF key \notin DOMAIN _PANCH_CACHE
         THEN /\ pc' = [pc EXCEPT ![t] = "compute"]
              /\ UNCHANGED <<ret, _PANCH_CACHE>>
         ELSE IF Expired(clock - _PANCH_CACHE[key]._ts)
         THEN /\ pc' = [pc EXCEPT ![t] = "compute"]
              /\ _PANCH_CACHE' =
                   [k \in DOMAIN _PANCH_CACHE \ {key} |-> _PANCH_CACHE[k]]
              /\ ret' = ret
         ELSE /\ pc' = [pc EXCEPT ![t] = "done"]
              /\ ret' = [ret EXCEPT ![t] =
                           [kind |-> "ok", value |-> _PANCH_CACHE[key].data,
                            hit |-> TRUE, age |-> clock - _PANCH_CACHE[key]._ts]]
              /\ UNCHANGED _PANCH_CACHE
      /\ UNCHANGED <<fn, args, md_log, _SESSION, _CACHE, requests, loaded, clock>>

\* the computation from the sunrise on; an exception ends the call
PanchCompute(t) ==
  LET out == FreshPanchangam(args[t].datetimeLocal, args[t].ayan_deg)
  IN  /\ pc[t] = "compute"
      /\ loaded' = LoadBoth(loaded)
      /\ IF out.kind # "ok"
         THEN pc' = [pc EXCEPT ![t] = "done"] /\ ret' = [ret EXCEPT ![t] = out]
         ELSE /\ pc' = [pc EXCEPT ![t] = "store"]
              /\ ret' = [ret EXCEPT ![t] =
                           [kind |-> "ok", value |-> out.value, hit |-> FALSE, age |-> 0]]
      /\ UNCHANGED <<fn, args, md_log, _SESSION, _CACHE, requests, _PANCH_CACHE, clock>>

\* _panch_cache_set(key, out); return out
PanchStore(t) ==
  LET key == _panch_key(args[t].datetimeLocal, args[t].ayan_deg)
  IN  /\ pc[t] = "store"
      /\ _PANCH_CACHE' =
           [k \in DOMAIN _PANCH_CACHE \cup {key} |->
              IF k = key THEN [_ts |-> clock, data |-> ret[t].value]
              ELSE _PANCH_CACHE[k]]
      /\ pc' = [pc EXCEPT ![t] = "done"]
      /\ UNCHANGED <<fn, args, ret, md_log, _SESSION, _CACHE, requests, loaded, clock>>

\* a thread of the pool takes the next request
PanchNewCall(t) ==
  /\ pc[t] = "done"
  /\ requests < MaxPanchCalls
  /\ requests' = requests + 1
  /\ \E a \in PanchArgs : args' = [args EXCEPT ![t] = a]
  /\ pc' = [pc EXCEPT ![t] = "call"]
  /\ ret' = [ret EXCEPT ![t] = NoResult]
  /\ UNCHANGED <<fn, md_log, _SESSION, _CACHE, _PANCH_CACHE, loaded, clock>>

\* the readings of time.time(): the start, a second later, the TTL later and
\* a second past it
PanchClock == {0, 1, _PANCH_TTL_SEC, _PANCH_TTL_SEC + 1}

\* time passes
PanchTick ==
  /\ \E c \in PanchClock : c > clock /\ clock' = c
  /\ UNCHANGED <<pc, fn, args, ret, md_log, _SESSION, _CACHE, requests, _PANCH_CACHE, loaded>>

NextPanch ==
  \/ \E t \in Threads : PanchLookup(t)
  \/ \E t \in Threads : PanchCompute(t)
  \/ \E t \in Threads : PanchStore(t)
  \/ \E t \in Threads : PanchNewCall(t)
  \/ PanchTick

SpecPanch == InitPanch /\ [][NextPanch]_vars

(***************************************************************************)
(* C23: no core computation writes process-wide state, so under every      *)
(* interleaving of concurrent invocations each invocation returns exactly  *)
(* the result it would return when run alone on the same arguments, and    *)
(* none fails because of another one.                                      *)
(***************************************************************************)
C23_InvocationsDoNotInterfere ==
  \A t \in Threads :
    pc[t] = "done" =>
      /\ ret[t].kind = "ok"
      /\ ret[t].value =
           FreshPanchangam(args[t].datetimeLocal, args[t].ayan_deg).value

(***************************************************************************)
(* The lazy loading of the ephemeris dataset.  nasa_ephemeris.py and       *)
(* panchangam_calc.py each keep their own globals _TS and _EPH and their   *)
(* own loader, _ensure_loaded and _sf_loaded; a loader tests "_EPH is      *)
(* None" and then reads de440s.bsp, without a lock, and the read lets the  *)
(* other threads run.  pc, fn and ret hold one entry per thread.           *)
(***************************************************************************)
\* the module whose globals a loader fills
ModuleOf(loader) ==
  IF loader = "_ensure_loaded" THEN "nasa_ephemeris" ELSE "panchangam_calc"

InitLoad ==
  /\ pc = [t \in Threads |-> "call"]
  /\ fn \in [Threads -> {"_ensure_loaded", "_sf_loaded"}]
  /\ args = [t \in Threads |-> <<>>]
  /\ ret = [t \in Threads |-> NoResult]
  /\ md_log = <<>>
  /\ NoGlobals

\* "if _EPH is None:"
LoadTest(t) ==
  /\ pc[t] = "call"
  /\ pc' = [pc EXCEPT ![t] = IF loaded[ModuleOf(fn[t])] THEN "done" ELSE "load"]
  /\ UNCHANGED <<fn, args, ret, md_log, _SESSION, _CACHE, requests, _PANCH_CACHE, loaded, clock>>

\* "_EPH = load(DE_FILE)"
LoadDataset(t) ==
  /\ pc[t] = "load"
  /\ loaded' = [loaded EXCEPT ![ModuleOf(fn[t])] = TRUE, !.loads = loaded.loads + 1]
  /\ pc' = [pc EXCEPT ![t] = "done"]
  /\ UNCHANGED <<fn, args, ret, md_log, _SESSION, _CACHE, requests, _PANCH_CACHE, clock>>

\* the thread goes on to its next use of a loader
LoadAgain(t) ==
  /\ pc[t] = "done"
  /\ requests < MaxRequests
  /\ requests' = requests + 1
  /\ \E f \in {"_ensure_loaded", "_sf_loaded"} : fn' = [fn EXCEPT ![t] = f]
  /\ pc' = [pc EXCEPT ![t] = "call"]
  /\ UNCHANGED <<args, ret, md_log, _SESSION, _CACHE, _PANCH_CACHE, loaded, clock>>

NextLoad ==
  \/ \E t \in Threads : LoadTest(t)
  \/ \E t \in Threads : LoadDataset(t)
  \/ \E t \in Threads : LoadAgain(t)

SpecLoad == InitLoad /\ [][NextLoad]_vars

(***************************************************************************)
(* C24: the ephemeris dataset de440s.bsp is initialized once per process   *)
(* and then reused: in every execution, concurrent first calls and calls   *)
(* through both the position provider and the sunrise finder included,     *)
(* the dataset load runs at most once.                                     *)
(***************************************************************************)
C24_DatasetLoadedAtMostOnce == loaded.loads <= 1

(***************************************************************************)
(* C25: the lords of a sibling list and the nominal spans                  *)
(***************************************************************************)
\* the cyclic order of the lords, written out pair by pair
CyclicSuccessor ==
  [Ketu |-> "Venus", Venus |-> "Sun", Sun |-> "Moon", Moon |-> "Mars",
   Mars |-> "Rahu", Rahu |-> "Jupiter", Jupiter |-> "Saturn",
   Saturn |-> "Mercury", Mercury |-> "Ketu"]

\* ch starts at the lord first, walks the cyclic order, repeats no lord
LordsInOrder(ch, first) ==
  /\ Len(ch) > 0 => ch[1].lord = first
  /\ \A i \in 2..Len(ch) : ch[i].lord = CyclicSuccessor[ch[i - 1].lord]
  /\ \A i, j \in 1..Len(ch) : i # j => ch[i].lord # ch[j].lord

NodeSpan(node) == T(node.end) - T(node.start)

\* parent_span * weight(lord) / 120, to the nearest tick
NominalSpan(parent_span, lord) ==
  RoundHalfEven(parent_span.n * DASHA_YEARS[lord], parent_span.d * 120)

\* every child of ch but the last has its nominal span
NominalSpans(ch, parent_span) ==
  \A i \in 1..(Len(ch) - 1) : NodeSpan(ch[i]) = NominalSpan(parent_span, ch[i].lord)

\* the sibling lists of every level under node, whose nominal span is given
RECURSIVE SiblingsOK(_, _)
SiblingsOK(node, parent_span) ==
  LET ch == ChildrenOf(node)
  IN  \/ ch = <<>>
      \/ /\ LordsInOrder(ch, node.lord)
         /\ NominalSpans(ch, parent_span)
         /\ \A i \in 1..Len(ch) :
              SiblingsOK(ch[i], [n |-> parent_span.n * DASHA_YEARS[ch[i].lord],
                                 d |-> parent_span.d * 120])

\* C25: every sibling list the period builders return starts at the parent's
\* lord (start_lord for build_level_list, maha_lord for the mahadasha list and
\* the tree's root), continues with the successor in the cyclic order Ketu,
\* Venus, Sun, Moon, Mars, Rahu, Jupiter, Saturn, Mercury and repeats no lord;
\* every child but the last of a subdivided period spans
\* parent_span * weight(lord) / 120, and every full mahadasha of the list
\* spans its weight in years.
C25_SiblingLordsAndSpans ==
  /\ Returned("build_vimshottari_tree") =>
       /\ LordsInOrder(ret.value, args.maha_lord)
       /\ SiblingsOK(ret.value[1],
                     _days_of_years(ClampBalance(args.maha_lord,
                                                 args.maha_balance_years)))
  /\ Returned("build_level_list") =>
       /\ LordsInOrder(ret.value, args.start_lord)
       /\ NominalSpans(ret.value, [n |-> args.end_utc - args.start_utc, d |-> 1])
  /\ Returned("build_mahadasha_list_120y_9items") =>
       /\ LordsInOrder(ret.value, args.maha_lord)
       /\ Len(ret.value) = Len(ORDER)
       /\ NominalSpans(SubSeq(ret.value, 2, Len(ret.value)),
                       _days_of_years(TOTAL_YEARS * YearUnits))

\* a three-level tree under Saturn: its bhuktis wrap from Mercury to Ketu
C25_Witness ==
  /\ Returned("build_vimshottari_tree")
  /\ args.maha_lord = "Saturn"
  /\ args.max_levels = 3
  /\ Len(ChildrenOf(ret.value[1])) = Len(ORDER)
  /\ ChildrenOf(ret.value[1])[2].lord = "Mercury"
  /\ ChildrenOf(ret.value[1])[3].lord = "Ketu"
  /\ Len(ChildrenOf(ChildrenOf(ret.value[1])[2])) = Len(ORDER)

(***************************************************************************)
(* C26: the depth of the tree                                              *)
(***************************************************************************)
NodeKeys == {"level", "lord", "start", "end"}

\* node, at level k, carries nine children of the next level exactly when
\* k < max_levels and k < 5, and so does everything under it
RECURSIVE DepthOK(_, _)
DepthOK(node, max_levels) ==
  LET k == LevelNo(node.level)
      deeper == k < max_levels /\ k < 5
  IN  IF deeper
      THEN /\ DOMAIN node = NodeKeys \cup {LEVELS[k + 1]}
           /\ Len(node[LEVELS[k + 1]]) = 9
           /\ \A i \in 1..9 :
                /\ node[LEVELS[k + 1]][i].level = LEVELS[k + 1]
                /\ DepthOK(node[LEVELS[k + 1]][i], max_levels)
      ELSE DOMAIN node = NodeKeys

\* C26: build_vimshottari_tree returns one mahadasha root; a node at level k
\* carries a child list, of exactly 9 nodes under the key of the next level,
\* exactly when k < max_levels and k < 5; max_levels <= 1, zero and negatives
\* included, gives a childless root, and max_levels > 5 the tree of 5.
C26_TreeDepthIsClampedMaxLevels ==
  Returned("build_vimshottari_tree") =>
    /\ Len(ret.value) = 1
    /\ ret.value[1].level = "mahadasha"
    /\ DepthOK(ret.value[1], args.max_levels)
    /\ args.max_levels <= 1 => DOMAIN ret.value[1] = NodeKeys
    /\ args.max_levels > 5 =>
         ret = build_vimshottari_tree(args.start_utc, args.maha_lord,
                                      args.maha_balance_years, 5)

\* max_levels = 6 gives a tree that reaches the pranas and stops there
C26_Witness ==
  /\ Returned("build_vimshottari_tree")
  /\ args.max_levels = 6
  /\ Len(ret.value[1].bhukti[1].antara[1].sukshma[1].prana) = 9
  /\ DOMAIN ret.value[1].bhukti[1].antara[1].sukshma[1].prana[1] = NodeKeys

(***************************************************************************)
(* C27: the bisection keeps its bracket and ends on the crossing           *)
(***************************************************************************)
\* fn(t0) <= target <= fn(t1) over a window that runs forwards
BracketedUp(f, target, t0, t1) ==
  t0 <= t1 /\ f[t0] <= target /\ target <= f[t1]

NonDecreasing(f, t0, t1) ==
  \A x, y \in t0..t1 : x <= y => f[x] <= f[y]

\* the first instant of the window at which f reaches the target
FirstReach(f, target, t0, t1) ==
  CHOOSE x \in t0..t1 :
    /\ f[x] >= target
    /\ \A y \in t0..t1 : f[y] >= target => x <= y

\* (t1 - t0) / 2^44, or one tick where that is finer than a tick
Resolution(t0, t1) ==
  LET r == ((t1 - t0) \div (2 ^ 22)) \div (2 ^ 22)
  IN  IF r > 1 THEN r ELSE 1

Distance(x, y) == IF x >= y THEN x - y ELSE y - x

\* C27: when fn(t0) <= target <= fn(t1), after every one of the 44
\* iterations t0 <= a <= b <= t1, fn(b) >= target and (a = t0 or
\* fn(a) < target); the result is the last b, lies in the window, has
\* fn(result) >= target and, for a non-decreasing fn, is within
\* (t1 - t0) / 2^44, or one tick, of the first instant at which fn reaches
\* the target.
C27_BisectionKeepsBracket ==
  (Done("_bin_search_time")
     /\ BracketedUp(args.fn, args.target, args.t0, args.t1))
    => /\ ret.kind = "ok"
       /\ Len(ret.steps) = 44
       /\ \A i \in 1..Len(ret.steps) :
            /\ args.t0 <= ret.steps[i].a
            /\ ret.steps[i].a <= ret.steps[i].b
            /\ ret.steps[i].b <= args.t1
            /\ args.fn[ret.steps[i].b] >= args.target
            /\ (ret.steps[i].a = args.t0
                  \/ args.fn[ret.steps[i].a] < args.target)
       /\ ret.value = ret.steps[Len(ret.steps)].b
       /\ ret.value \in args.t0..args.t1
       /\ args.fn[ret.value] >= args.target
       /\ NonDecreasing(args.fn, args.t0, args.t1) =>
            Distance(ret.value,
                     FirstReach(args.fn, args.target, args.t0, args.t1))
              <= Resolution(args.t0, args.t1)

\* a rising function over the whole window that crosses the target inside it
C27_Witness ==
  /\ Done("_bin_search_time")
  /\ args.t0 = 0 /\ args.t1 = BisectSpan
  /\ args.fn[0] < args.target
  /\ NonDecreasing(args.fn, args.t0, args.t1)
  /\ args.fn[1] < args.fn[2]
  /\ args.fn[2] = args.target
  /\ ret.value = 2
  /\ ret.steps[1] # ret.steps[2]

(***************************************************************************)
(* C28: the lazy level list against the eager tree                         *)
(***************************************************************************)
\* the (lord, start, end) triples of a sibling list
Triples(ch) == [i \in 1..Len(ch) |-> <<ch[i].lord, ch[i].start, ch[i].end>>]

\* build_level_list over the node's own period, from the node's own lord
LazyChildren(node) ==
  build_level_list(LEVELS[LevelNo(node.level) + 1], T(node.start), T(node.end),
                   node.lord)

\* node and everything under it: the lazy list is the eager child list
RECURSIVE LazyAgrees(_)
LazyAgrees(node) ==
  LET ch == ChildrenOf(node)
  IN  \/ ch = <<>>
      \/ /\ LazyChildren(node).kind = "ok"
         /\ Triples(LazyChildren(node).value) = Triples(ch)
         /\ \A i \in 1..Len(ch) : LazyAgrees(ch[i])

\* C28: for every node of the tree build_vimshottari_tree returns that
\* carries children, the mahadasha included, build_level_list over the node's
\* period and from the node's lord returns the same (lord, start, end)
\* triples as the eager children.
C28_LazyAgreesWithEager ==
  Returned("build_vimshottari_tree") => LazyAgrees(ret.value[1])

(***************************************************************************)
(* The three caches under writes, reads and a running clock: _CACHE and    *)
(* _SESSION of main.py, _PANCH_CACHE of panchangam_calc.py.  The cached    *)
(* values are opaque here.                                                 *)
(***************************************************************************)
\* how many cache operations a run takes
MaxCacheOps == 3

SessionKeys == {"a"}
CacheKeys == {<<"maha", "a">>, <<"nasa", "a">>}
PanchKeys == {"p", "q"}
CacheData == {"x", "y"}

\* the readings of time.time(): the start, the TTL later, a second past it,
\* and past a second TTL
CacheClock == {0, TTL_SEC, TTL_SEC + 1, 2 * TTL_SEC + 2}

\* _panch_cache_get(key) at the instant now: the value returned and the dict left
_panch_cache_get(cache, key, now) ==
  IF key \notin DOMAIN cache
  THEN [value |-> Miss, cache |-> cache]
  ELSE IF Expired(now - cache[key]._ts)
  THEN [value |-> Miss, cache |-> [k \in DOMAIN cache \ {key} |-> cache[k]]]
  ELSE [value |-> Hit(cache[key].data), cache |-> cache]

\* dasha_maha on the key k, d being the session _ensure_session would build:
\* the cached response, else the response built from the stored session, else
\* from a new session
dasha_maha(k, d, st, now) ==
  LET cache1 == Purge(st.cache, now)
      session1 == Purge(st.session, now)
      cached == _cache_get(cache1, <<"maha", k>>)
      stored == k \in DOMAIN session1
      ses == IF stored THEN session1[k] ELSE [_ts |-> now, data |-> d]
      session2 == IF stored THEN session1 ELSE Store(session1, k, now, d)
  IN  Answer(cached, ses.data, cache1, session2, <<"maha", k>>, now)

InitCache ==
  /\ pc = "idle"
  /\ fn = "none"
  /\ args = [key |-> "none"]
  /\ ret = NoResult
  /\ md_log = <<>>
  /\ NoGlobals

CacheGetOp ==
  /\ requests < MaxCacheOps
  /\ \E k \in CacheKeys :
       /\ args' = [key |-> k]
       /\ ret' = Ok(_cache_get(Purge(_CACHE, clock), k))
  /\ fn' = "_cache_get"
  /\ _CACHE' = Purge(_CACHE, clock)
  /\ _SESSION' = Purge(_SESSION, clock)
  /\ pc' = "done"
  /\ requests' = requests + 1
  /\ UNCHANGED <<md_log, _PANCH_CACHE, loaded, clock>>

CacheSetOp ==
  /\ requests < MaxCacheOps
  /\ \E k \in CacheKeys, d \in CacheData :
       /\ args' = [key |-> k, data |-> d]
       /\ _CACHE' = Store(Purge(_CACHE, clock), k, clock, d)
  /\ fn' = "_cache_set"
  /\ ret' = NoResult
  /\ _SESSION' = Purge(_SESSION, clock)
  /\ pc' = "done"
  /\ requests' = requests + 1
  /\ UNCHANGED <<md_log, _PANCH_CACHE, loaded, clock>>

DashaMahaOp ==
  /\ requests < MaxCacheOps
  /\ \E k \in SessionKeys, d \in CacheData :
       /\ args' = [key |-> k, data |-> d]
       /\ \E r \in {dasha_maha(k, d, Globals, clock)} :
            ret' = r.ret /\ _CACHE' = r.cache /\ _SESSION' = r.session
  /\ fn' = "dasha_maha"
  /\ pc' = "done"
  /\ requests' = requests + 1
  /\ UNCHANGED <<md_log, _PANCH_CACHE, loaded, clock>>

PanchGetOp ==
  /\ requests < MaxCacheOps
  /\ \E k \in PanchKeys :
       /\ args' = [key |-> k]
       /\ \E r \in {_panch_cache_get(_PANCH_CACHE, k, clock)} :
            ret' = Ok(r.value) /\ _PANCH_CACHE' = r.cache
  /\ fn' = "_panch_cache_get"
  /\ pc' = "done"
  /\ requests' = requests + 1
  /\ UNCHANGED <<md_log, _SESSION, _CACHE, loaded, clock>>

PanchSetOp ==
  /\ requests < MaxCacheOps
  /\ \E k \in PanchKeys, d \in CacheData :
       /\ args' = [key |-> k, data |-> d]
       /\ _PANCH_CACHE' = Store(_PANCH_CACHE, k, clock, d)
  /\ fn' = "_panch_cache_set"
  /\ ret' = NoResult
  /\ pc' = "done"
  /\ requests' = requests + 1
  /\ UNCHANGED <<md_log, _SESSION, _CACHE, loaded, clock>>

\* time passes
CacheTick ==
  /\ \E c \in CacheClock : c > clock /\ clock' = c
  /\ UNCHANGED <<pc, fn, args, ret, md_log, _SESSION, _CACHE, requests, _PANCH_CACHE, loaded>>

NextCache ==
  \/ CacheGetOp
  \/ CacheSetOp
  \/ DashaMahaOp
  \/ PanchGetOp
  \/ PanchSetOp
  \/ CacheTick

SpecCache == InitCache /\ [][NextCache]_vars

\* the entry under k is older than the TTL now
Stale(dict, k) == k \in DOMAIN dict /\ clock - dict[k]._ts > TTL_SEC
\* the entry under k is there and not older than the TTL
Fresh(dict, k) == k \in DOMAIN dict /\ clock - dict[k]._ts <= TTL_SEC

\* this step is a call of f
Calls(f) == requests' = requests + 1 /\ fn' = f

\* C29: no cache read returns an entry older than the 6-hour TTL.  A call of
\* _cache_get leaves no entry older than TTL_SEC in _CACHE or _SESSION and
\* misses a key whose entry was older; a call of _panch_cache_get on an entry
\* older than _PANCH_TTL_SEC removes it and misses; the session dasha_maha
\* reuses is not older than the TTL; and an entry not older than the TTL,
\* which is the one last written under its key, is returned unchanged.
C29_NoReadOlderThanTTL ==
  [][ /\ Calls("_cache_get") =>
           /\ \A k \in DOMAIN _CACHE' : clock - _CACHE'[k]._ts <= TTL_SEC
           /\ \A k \in DOMAIN _SESSION' : clock - _SESSION'[k]._ts <= TTL_SEC
           /\ Stale(_CACHE, args'.key) => ret'.value = Miss
           /\ Fresh(_CACHE, args'.key) =>
                ret'.value = Hit(_CACHE[args'.key].data)
      /\ Calls("_panch_cache_get") =>
           /\ Stale(_PANCH_CACHE, args'.key) =>
                /\ ret'.value = Miss
                /\ args'.key \notin DOMAIN _PANCH_CACHE'
           /\ Fresh(_PANCH_CACHE, args'.key) =>
                /\ ret'.value = Hit(_PANCH_CACHE[args'.key].data)
                /\ _PANCH_CACHE' = _PANCH_CACHE
      /\ Calls("dasha_maha") =>
           /\ Stale(_CACHE, <<"maha", args'.key>>) /\ Stale(_SESSION, args'.key)
                => ret'.value = args'.data
           /\ Fresh(_CACHE, <<"maha", args'.key>>)
                => ret'.value = _CACHE[<<"maha", args'.key>>].data
           /\ ~Fresh(_CACHE, <<"maha", args'.key>>) /\ Fresh(_SESSION, args'.key)
                => ret'.value = _SESSION[args'.key].data
           /\ \A k \in DOMAIN _SESSION' : clock - _SESSION'[k]._ts <= TTL_SEC
    ]_vars

\* the dicts after a read that came one second past the TTL of an entry
\* written at the start: the entry is gone, a later one is kept
C29_Witness ==
  /\ pc = "done"
  /\ fn = "_panch_cache_get"
  /\ clock = TTL_SEC + 1
  /\ ret.value = Miss
  /\ args.key = "p"
  /\ "p" \notin DOMAIN _PANCH_CACHE
  /\ "q" \in DOMAIN _PANCH_CACHE
  /\ requests = 3

(***************************************************************************)
(* C30: an answer from the cache against a fresh computation               *)
(***************************************************************************)
\* the handler run on the request's own arguments with nothing cached
FreshResponse(f, req) ==
  IF f = "nasa_positions"
  THEN nasa_positions(req, [cache |-> EmptyDict, session |-> EmptyDict]).ret
  ELSE astro_home(req, [cache |-> EmptyDict, session |-> EmptyDict]).ret

\* the instant a response reports: jd_ut of /api/astro/nasa, meta.jd_ut of
\* /api/astro/home.  It is a function of the request's datetimeLocal alone.
ResponseInstant(f, v) == IF f = "nasa_positions" THEN v.jd_ut ELSE v.meta.jd_ut

\* C30: caching is transparent: a response of /api/astro/nasa or
\* /api/astro/home, answered from the cache or not, reports the instant a
\* fresh computation on the request's own arguments reports.
C30_CachingIsTransparent ==
  (pc = "done" /\ fn \in {"nasa_positions", "astro_home"} /\ ret.kind = "ok")
    => ResponseInstant(fn, ret.value)
         = ResponseInstant(fn, FreshResponse(fn, args).value)

====
